---------------------------- MODULE Spec2Model ----------------------------
(***************************************************************************)
(* Model of the event pipeline of the GitHub event viewer:                 *)
(*   getEventCategory / groupEventsByCategory   (utils/event-helpers.ts)   *)
(*   findRelatedEvents                          (utils/event-helpers.ts)   *)
(*   truncateMiddle, prepareReportData,                                    *)
(*   formatReportAsHtml                         (utils/report-helpers.ts)  *)
(*                                                                         *)
(* The helpers are pure functions.  Each one gets a specification whose    *)
(* initial states draw its input from a bounded set and whose action       *)
(* applies the function to that input, so that every property is checked   *)
(* over all inputs within the bounds.                                      *)
(*                                                                         *)
(* Conventions.  A JavaScript string that is inspected character by        *)
(* character (titles, URLs, HTML) is a sequence of one-character strings.  *)
(* An optional field (payload.pull_request?, pr.body?, ...) is a sequence  *)
(* of length 0 (absent) or 1 (present).                                    *)
(***************************************************************************)
EXTENDS Integers, Sequences, FiniteSets, TLC

VARIABLES
    pc,             \* "input": the function has not run yet; "done": it has
    events,         \* events: GitHubEvent[], the input of the event helpers
    grouped,        \* result of groupEventsByCategory
    relatedEvents,  \* result of findRelatedEvents (a Map: key |-> entry)
    reportData,     \* result of prepareReportData / input of formatReportAsHtml
    timeRange,      \* timeRange?: TimeRange of formatReportAsHtml
    html,           \* result of formatReportAsHtml
    text,           \* text: string of truncateMiddle
    maxLength,      \* maxLength: number of truncateMiddle
    truncated,      \* result of truncateMiddle
    slackText,      \* result of formatReportForSlack
    dateInput,      \* date: Date of formatDateForUrl
    urlDate,        \* dateStr: string of parseDateFromUrl
    formattedDate,  \* result of formatDateForUrl
    parsedDate,     \* result of parseDateFromUrl
    rangeStart,     \* start: Date | null of validateDateRange
    rangeEnd,       \* end: Date | null of validateDateRange
    dateRange,      \* result of validateDateRange
    usernames,      \* useState<string[]>([])
    startDay,       \* startDate of useState<Date>: the first day of the window
    endDay,         \* endDate of useState<Date>: the last day of the window
    isSyncing,      \* useState(false)
    lastRequestKey, \* useState<string>("")
    lastSynced,     \* useState<string | null>(null)
    localStorage,   \* the three items that the component keeps in localStorage
    toast,          \* the toast shown last
    fetches,        \* the invocations of fetchEvents that passed the duplicate check
    effect,         \* whether the effect on [usernames] is still to run
    now,            \* new Date(): the clock
    viewMode,       \* useState<ViewMode>
    showFilters,    \* useState(true)
    searchParams,   \* the 'view' and 'usernames' parameters of the URL
    console,        \* the errors that the mount has logged with console.error
    selectedEventTypes, \* useState<Set<string>>(new Set()) of the event-type filter
    timelineEvents, \* result of groupRelatedEventsForTimeline
    filtered        \* result of getFilteredEvents

\* The variables of the report exports other than html
exportVars == <<slackText>>

\* The variables that the event helpers and truncateMiddle leave alone
\* The variables of the date helpers
dateVars == <<dateInput, urlDate, formattedDate, parsedDate, rangeStart, rangeEnd,
              dateRange>>

\* The variables of GitHubEventViewerClient other than events
clientVars == <<usernames, startDay, endDay, isSyncing, lastRequestKey, lastSynced,
                localStorage, toast, fetches, effect, now, viewMode, showFilters,
                searchParams, console, selectedEventTypes>>

\* The results of the timeline grouping and of the filters
viewVars == <<timelineEvents, filtered>>

restVars == <<exportVars, dateVars, clientVars, viewVars>>

vars == <<pc, events, grouped, relatedEvents, reportData, timeRange, html,
          text, maxLength, truncated, restVars>>

-----------------------------------------------------------------------------
(* Generic helpers *)

\* Sequences over S of length 0..n
SeqsUpTo(S, n) == UNION {[1..k -> S] : k \in 0..n}

\* An optional value: absent or present
None == <<>>

Some(v) == <<v>>

Has(o) == o # <<>>

Val(o) == o[1]

Range(s) == {s[i] : i \in DOMAIN s}

RECURSIVE Concat(_)
\* Concatenation of a sequence of sequences (by halves: long outputs stay
\* within the evaluator's stack)
Concat(ss) ==
    IF Len(ss) = 0 THEN <<>>
    ELSE IF Len(ss) = 1 THEN ss[1]
    ELSE LET h == Len(ss) \div 2
         IN Concat(SubSeq(ss, 1, h)) \o Concat(SubSeq(ss, h + 1, Len(ss)))

\* sub occurs in s as a contiguous substring (String.prototype.includes / toContain)
Includes(s, sub) ==
    \E i \in 0..(Len(s) - Len(sub)) : \A j \in 1..Len(sub) : s[i + j] = sub[j]

Min(a, b) == IF a < b THEN a ELSE b

Max(a, b) == IF a > b THEN a ELSE b

-----------------------------------------------------------------------------
(* Events.  Only the fields the helpers read are modelled. *)

\* payload.pull_request
PullRequest(number, title, html_url, merged, merged_by, user, body) ==
    [number |-> number, title |-> title, html_url |-> html_url, merged |-> merged,
     merged_by |-> merged_by, user |-> user, body |-> body]

\* payload.issue; pull_request is present when the "issue" is in fact a pull request
Issue(number, title, html_url, pull_request) ==
    [number |-> number, title |-> title, html_url |-> html_url,
     pull_request |-> pull_request]

\* A GitHubEvent.  The id is the position in the input list (ids are unique).
Event(type, repo, action, pull_request, issue, review) ==
    [type |-> type, repo |-> repo, action |-> action,
     pull_request |-> pull_request, issue |-> issue, review |-> review]

-----------------------------------------------------------------------------
(* getEventCategory and groupEventsByCategory *)

\* The type tags of the switch, those that EVENT_TYPES lists under "Other", and
\* one tag that no table knows
EventTypeTags ==
    {"PullRequestEvent", "PullRequestReviewEvent", "PullRequestReviewCommentEvent",
     "IssuesEvent", "IssueCommentEvent", "PushEvent",
     "CreateEvent", "DeleteEvent", "ForkEvent", "WatchEvent", "ReleaseEvent",
     "PublicEvent", "MemberEvent", "GollumEvent",
     "CommitCommentEvent", "SecurityAdvisoryEvent", "UnknownEvent"}

EventCategories == {"Pull Requests", "Issues", "Commits", "Repository", "Other"}

\* mutant: review comments fall through to the issue case
getEventCategory_mut(type) ==
    CASE type \in {"PullRequestEvent", "PullRequestReviewEvent"} -> "Pull Requests"
      [] type \in {"IssuesEvent", "IssueCommentEvent",
                   "PullRequestReviewCommentEvent"} -> "Issues"
      [] type = "PushEvent" -> "Commits"
      [] type \in {"CreateEvent", "DeleteEvent", "ForkEvent", "WatchEvent",
                   "ReleaseEvent", "PublicEvent", "MemberEvent", "GollumEvent"}
            -> "Repository"
      [] OTHER -> "Other"

\* switch (event.type) { case ...: return ...; default: return "Other" }
getEventCategory(type) ==
    CASE type = "PullRequestEvent" -> "Pull Requests"
      [] type = "PullRequestReviewEvent" -> "Pull Requests"
      [] type = "PullRequestReviewCommentEvent" -> "Pull Requests"
      [] type = "IssuesEvent" -> "Issues"
      [] type = "IssueCommentEvent" -> "Issues"
      [] type = "PushEvent" -> "Commits"
      [] type = "CreateEvent" -> "Repository"
      [] type = "DeleteEvent" -> "Repository"
      [] type = "ForkEvent" -> "Repository"
      [] type = "WatchEvent" -> "Repository"
      [] type = "ReleaseEvent" -> "Repository"
      [] type = "PublicEvent" -> "Repository"
      [] type = "MemberEvent" -> "Repository"
      [] type = "GollumEvent" -> "Repository"
      [] OTHER -> "Other"

RECURSIVE groupReduce(_, _, _)
\* events.reduce((acc, event) => { ...; acc[category].push(event); return acc }, {})
\* acc is a function from the categories seen so far to the list of event ids
groupReduce(evs, i, acc) ==
    IF i > Len(evs) THEN acc
    ELSE LET category == getEventCategory(evs[i].type)
             acc1 == IF category \in DOMAIN acc THEN acc
                     ELSE [c \in DOMAIN acc \cup {category} |->
                              IF c = category THEN <<>> ELSE acc[c]]
             acc2 == [acc1 EXCEPT ![category] = Append(@, i)]
         IN groupReduce(evs, i + 1, acc2)

groupEventsByCategory(evs) == groupReduce(evs, 1, <<>>)

\* Longest input list of the classifier
MaxCatEvents == 2

\* An event of which only the type tag matters
TypeOnlyEvent(type) == Event(type, "org/repo", "", None, None, None)

CatEvents == {TypeOnlyEvent(t) : t \in EventTypeTags}

NoResult == <<>>

\* Nothing has been exported
ExportIdle == slackText = NoResult

ViewIdle == timelineEvents = NoResult /\ filtered = NoResult

\* No date helper has an argument or a result
DateIdle ==
    /\ dateInput = NoResult
    /\ urlDate = NoResult
    /\ formattedDate = NoResult
    /\ parsedDate = NoResult
    /\ rangeStart = NoResult
    /\ rangeEnd = NoResult
    /\ dateRange = NoResult

\* The state of the component and of the browser before the component exists
ClientIdle ==
    /\ usernames = NoResult
    /\ startDay = NoResult
    /\ endDay = NoResult
    /\ isSyncing = NoResult
    /\ lastRequestKey = NoResult
    /\ lastSynced = NoResult
    /\ localStorage = NoResult
    /\ toast = NoResult
    /\ fetches = NoResult
    /\ effect = NoResult
    /\ now = NoResult
    /\ viewMode = NoResult
    /\ showFilters = NoResult
    /\ searchParams = NoResult
    /\ console = NoResult
    /\ selectedEventTypes = NoResult

RestIdle == ExportIdle /\ DateIdle /\ ClientIdle /\ ViewIdle

Idle ==
    /\ grouped = NoResult
    /\ relatedEvents = NoResult
    /\ reportData = NoResult
    /\ timeRange = None
    /\ html = NoResult
    /\ text = <<>>
    /\ maxLength = 0
    /\ truncated = NoResult
    /\ RestIdle

InitCategory ==
    /\ pc = "input"
    /\ events \in SeqsUpTo(CatEvents, MaxCatEvents)
    /\ Idle

GroupByCategory ==
    /\ pc = "input"
    /\ grouped' = groupEventsByCategory(events)
    /\ pc' = "done"
    /\ UNCHANGED <<events, relatedEvents, reportData, timeRange, html,
                   text, maxLength, truncated>>
    /\ UNCHANGED restVars

NextCategory == GroupByCategory

SpecCategory == InitCategory /\ [][NextCategory]_vars

-----------------------------------------------------------------------------
(* C1 *)

PullRequestTypes ==
    {"PullRequestEvent", "PullRequestReviewEvent", "PullRequestReviewCommentEvent"}

IssueTypes == {"IssuesEvent", "IssueCommentEvent"}

CommitTypes == {"PushEvent"}

RepositoryTypes ==
    {"CreateEvent", "DeleteEvent", "ForkEvent", "WatchEvent", "ReleaseEvent",
     "PublicEvent", "MemberEvent", "GollumEvent"}

\* The category the fixed table of the claim gives a type tag
TableCategory(type) ==
    IF type \in PullRequestTypes THEN "Pull Requests"
    ELSE IF type \in IssueTypes THEN "Issues"
    ELSE IF type \in CommitTypes THEN "Commits"
    ELSE IF type \in RepositoryTypes THEN "Repository"
    ELSE "Other"

\* C1: getEventCategory is total and matches the fixed table: once the events
\* are grouped, every event of the input, whatever its type tag, is listed in
\* exactly one group, the group of the category the table gives its type tag
\* (unknown tags: "Other"), and every group is one of the five categories.
C1_CategoryMatchesTable ==
    pc = "done" /\ grouped # NoResult =>
        /\ DOMAIN grouped \subseteq EventCategories
        /\ \A i \in DOMAIN events :
              \A c \in EventCategories :
                  (c \in DOMAIN grouped /\ i \in Range(grouped[c]))
                      <=> c = TableCategory(events[i].type)

\* C1 witness: a grouped input that holds a review comment and an unknown tag
C1_Witness ==
    /\ pc = "done"
    /\ grouped # NoResult
    /\ \E i, j \in DOMAIN events :
          /\ events[i].type = "PullRequestReviewCommentEvent"
          /\ events[j].type = "UnknownEvent"
    /\ "Other" \in DOMAIN grouped
    /\ "Pull Requests" \in DOMAIN grouped

-----------------------------------------------------------------------------
(* findRelatedEvents *)

Digits == <<"0", "1", "2", "3", "4", "5", "6", "7", "8", "9">>

RECURSIVE NumberToString(_)
\* Number.prototype.toString / `${number}` for a natural number
NumberToString(n) ==
    IF n < 10 THEN <<Digits[n + 1]>>
    ELSE NumberToString(n \div 10) \o <<Digits[(n % 10) + 1]>>

\* `${event.repo.name}#${number}`; digits is the number as it is written
LinkKey(repo, digits) == <<repo, digits>>

\* String.prototype.toLowerCase on the words of the bodies (the regex has flag i)
ToLowerCase(word) ==
    CASE word = "Fixes" -> "fixes"
      [] word = "CLOSES" -> "closes"
      [] OTHER -> word

\* One "<word> #<digits>" mention of a pull request body
Mention(word, digits) == [word |-> word, digits |-> digits]

\* mutant: every "#<digits>" mention counts, whatever the word before it
closingMatches_mut(body) == body

\* pr.body.match(/(?:fixes|closes|resolves)\s+#(\d+)/gi): the mentions the
\* regex matches, in textual order (an empty result stands for null)
closingMatches(body) ==
    SelectSeq(body, LAMBDA m : ToLowerCase(m.word) \in {"fixes", "closes", "resolves"})

\* A RelatedEvents object; events are referred to by their position in the input
Related(issue, pr, comments) == [issue |-> issue, pr |-> pr, comments |-> comments]

\* Map.prototype.set
MapSet(m, k, v) == [x \in DOMAIN m \cup {k} |-> IF x = k THEN v ELSE m[x]]

\* Map.prototype.delete
MapDelete(m, k) == [x \in DOMAIN m \ {k} |-> m[x]]

\* Map.prototype.has
MapHas(m, k) == k \in DOMAIN m

\* payload.pull_request?.number, 0 when there is none (0 is falsy as well)
PrNumber(e) == IF Has(e.pull_request) THEN Val(e.pull_request).number ELSE 0

\* payload.issue?.number
IssueNumber(e) == IF Has(e.issue) THEN Val(e.issue).number ELSE 0

\* One iteration of the first forEach: collect all PRs and issues
firstPassStep(m, evs, i) ==
    LET event == evs[i] IN
    IF event.type = "PullRequestEvent" /\ PrNumber(event) # 0 THEN
        LET key == LinkKey(event.repo, NumberToString(PrNumber(event))) IN
        IF ~MapHas(m, key) THEN MapSet(m, key, Related(None, Some(i), <<>>)) ELSE m
    ELSE IF event.type = "IssuesEvent" /\ IssueNumber(event) # 0 THEN
        LET key == LinkKey(event.repo, NumberToString(IssueNumber(event))) IN
        IF ~MapHas(m, key) THEN MapSet(m, key, Related(Some(i), None, <<>>)) ELSE m
    ELSE IF event.type \in {"IssueCommentEvent", "PullRequestReviewCommentEvent"} THEN
        LET number == IF IssueNumber(event) # 0 THEN IssueNumber(event)
                      ELSE PrNumber(event) IN
        IF number # 0 THEN
            LET key == LinkKey(event.repo, NumberToString(number))
                existing == IF MapHas(m, key) THEN m[key]
                            ELSE Related(None, None, <<>>)
            IN MapSet(m, key, [existing EXCEPT !.comments = Append(@, i)])
        ELSE m
    ELSE m

RECURSIVE firstPass(_, _, _)
firstPass(m, evs, i) ==
    IF i > Len(evs) THEN m ELSE firstPass(firstPassStep(m, evs, i), evs, i + 1)

RECURSIVE mergeMatches(_, _, _, _)
\* closingMatches.forEach(match => ...) for the pull request event evs[i]
mergeMatches(m, evs, i, matches) ==
    IF matches = <<>> THEN m
    ELSE
        LET event == evs[i]
            issueNumber == Head(matches).digits
            issueKey == LinkKey(event.repo, issueNumber)
            prKey == LinkKey(event.repo, NumberToString(PrNumber(event)))
            m1 == IF MapHas(m, issueKey) /\ MapHas(m, prKey) THEN
                      LET issueData == m[issueKey]
                          prData == m[prKey]
                      IN MapDelete(
                             MapSet(m, issueKey,
                                    [issueData EXCEPT
                                        !.pr = prData.pr,
                                        !.comments = issueData.comments \o prData.comments]),
                             prKey)
                  ELSE m
        IN mergeMatches(m1, evs, i, Tail(matches))

\* One iteration of the second forEach: link PRs to issues they close
secondPassStep_mut(m, evs, i) ==
    LET event == evs[i] IN
    IF event.type = "PullRequestEvent" /\ PrNumber(event) # 0 THEN
        LET pr == Val(event.pull_request) IN
        IF Has(pr.body) /\ Len(closingMatches(Val(pr.body))) > 1 THEN
            mergeMatches(m, evs, i, Tail(closingMatches(Val(pr.body))))
        ELSE m
    ELSE m

secondPassStep(m, evs, i) ==
    LET event == evs[i] IN
    IF event.type = "PullRequestEvent" /\ PrNumber(event) # 0 THEN
        LET pr == Val(event.pull_request) IN
        IF Has(pr.body) /\ Val(pr.body) # <<>> THEN
            mergeMatches(m, evs, i, closingMatches(Val(pr.body)))
        ELSE m
    ELSE m

RECURSIVE secondPass(_, _, _)
secondPass(m, evs, i) ==
    IF i > Len(evs) THEN m ELSE secondPass(secondPassStep(m, evs, i), evs, i + 1)

EmptyMap == <<>>

findRelatedEvents(evs) == secondPass(firstPass(EmptyMap, evs, 1), evs, 1)

\* Longest input list of the linker
MaxLinkEvents == 3

LinkNumbers == {1, 2, 3}

\* Numbers of the pull requests (the issues take every number)
LinkPrNumbers == {1, 2}

LinkRepo == "org/repo"

OtherRepo == "org/other"

\* Bodies of pull requests: none, one that mentions without closing, one closing
\* reference, two closing references to different numbers (in ascending order)
LinkBodies ==
    {None, Some(<<Mention("see", NumberToString(2))>>)}
    \cup {Some(<<Mention("Fixes", NumberToString(n))>>) : n \in LinkNumbers}
    \cup {Some(<<Mention("CLOSES", NumberToString(ab[1])),
                  Mention("resolves", NumberToString(ab[2]))>>) :
            ab \in {x \in LinkNumbers \X LinkNumbers : x[1] < x[2]}}

LinkPr(number, body) == PullRequest(number, <<>>, <<>>, FALSE, "", "", body)

LinkIssue(number) == Issue(number, <<>>, <<>>, None)

LinkEvents ==
    {Event("PullRequestEvent", LinkRepo, "opened", Some(LinkPr(n, b)), None, None) :
        n \in LinkPrNumbers, b \in LinkBodies}
    \cup {Event("PullRequestEvent", LinkRepo, "opened", None, None, None)}
    \cup {Event("IssuesEvent", r, "opened", None, Some(LinkIssue(n)), None) :
            r \in {LinkRepo, OtherRepo}, n \in LinkNumbers}
    \cup {Event("IssueCommentEvent", LinkRepo, "created", None, Some(LinkIssue(n)), None) :
            n \in LinkNumbers}
    \cup {Event("PullRequestReviewCommentEvent", LinkRepo, "created",
                Some(LinkPr(n, None)), None, None) : n \in LinkPrNumbers}
    \cup {Event("PushEvent", LinkRepo, "", None, None, None)}

InitLink ==
    /\ pc = "input"
    /\ events \in SeqsUpTo(LinkEvents, MaxLinkEvents)
    /\ Idle

FindRelated ==
    /\ pc = "input"
    /\ relatedEvents' = findRelatedEvents(events)
    /\ pc' = "done"
    /\ UNCHANGED <<events, grouped, reportData, timeRange, html,
                   text, maxLength, truncated>>
    /\ UNCHANGED restVars

NextLink == FindRelated

SpecLink == InitLink /\ [][NextLink]_vars

-----------------------------------------------------------------------------
(* C2, C3 *)

IsPrEvent(e) == e.type = "PullRequestEvent" /\ PrNumber(e) # 0

IsIssueEvent(e) == e.type = "IssuesEvent" /\ IssueNumber(e) # 0

\* The numbers, as written, that the body of pull request event e closes
ClosingRefs(e) ==
    IF Has(Val(e.pull_request).body)
    THEN {m.digits : m \in {x \in Range(Val(Val(e.pull_request).body)) :
                              ToLowerCase(x.word) \in {"fixes", "closes", "resolves"}}}
    ELSE {}

\* Pull request event i closes, by a reference in its body, the issue of issue
\* event j of the same repository, and the two numbers differ
Closes(i, j) ==
    /\ IsPrEvent(events[i])
    /\ IsIssueEvent(events[j])
    /\ events[i].repo = events[j].repo
    /\ PrNumber(events[i]) # IssueNumber(events[j])
    /\ NumberToString(IssueNumber(events[j])) \in ClosingRefs(events[i])

\* C2 (as claimed): for any input with a pull request event numbered p whose
\* body has a closing reference #n and an issue event numbered n of the same
\* repository (n # p), the result has key repo#n with issue and pr populated
\* and has no key repo#p.
C2_ClosingReferenceLinks ==
    pc = "done" =>
        \A i, j \in DOMAIN events :
            Closes(i, j) =>
                LET issueKey == LinkKey(events[j].repo, NumberToString(IssueNumber(events[j])))
                    prKey == LinkKey(events[i].repo, NumberToString(PrNumber(events[i])))
                IN /\ MapHas(relatedEvents, issueKey)
                   /\ Has(relatedEvents[issueKey].issue)
                   /\ Has(relatedEvents[issueKey].pr)
                   /\ ~MapHas(relatedEvents, prKey)

\* The input is one pull request event and one issue event, with different
\* numbers, and the pull request body has no closing reference; p and q are
\* their positions
UnrelatedPair(p, q) ==
    /\ Len(events) = 2
    /\ {p, q} = {1, 2}
    /\ IsPrEvent(events[p])
    /\ IsIssueEvent(events[q])
    /\ PrNumber(events[p]) # IssueNumber(events[q])
    /\ ClosingRefs(events[p]) = {}

\* C3: for an input of one pull request event and one issue event with
\* different numbers and no closing reference in the pull request body, the
\* result has exactly two keys: the pull request's, with only pr populated
\* (that event), and the issue's, with only issue populated (that event).
C3_UnrelatedStayApart ==
    pc = "done" =>
        \A p, q \in DOMAIN events :
            UnrelatedPair(p, q) =>
                LET prKey == LinkKey(events[p].repo, NumberToString(PrNumber(events[p])))
                    issueKey == LinkKey(events[q].repo, NumberToString(IssueNumber(events[q])))
                IN /\ DOMAIN relatedEvents = {prKey, issueKey}
                   /\ prKey # issueKey
                   /\ relatedEvents[prKey] = Related(None, Some(p), <<>>)
                   /\ relatedEvents[issueKey] = Related(Some(q), None, <<>>)

\* C3 witness: such a pair has been linked, the body mentioning the issue's
\* number without a closing word
C3_Witness ==
    /\ pc = "done"
    /\ \E p, q \in DOMAIN events :
          /\ UnrelatedPair(p, q)
          /\ events[p].repo = events[q].repo
          /\ Has(Val(events[p].pull_request).body)
          /\ \E m \in Range(Val(Val(events[p].pull_request).body)) :
                m.digits = NumberToString(IssueNumber(events[q]))
    /\ Cardinality(DOMAIN relatedEvents) = 2

-----------------------------------------------------------------------------
(* truncateMiddle *)

\* The "..." of the template literal
Ellipsis == <<".", ".", ".">>

\* A relative index of String.prototype.slice, clamped to 0..len
SliceIndex(k, len) == IF k < 0 THEN Max(len + k, 0) ELSE Min(k, len)

\* String.prototype.slice(start, end)
Slice(s, start, end) ==
    SubSeq(s, SliceIndex(start, Len(s)) + 1, SliceIndex(end, Len(s)))

\* String.prototype.slice(start): to the end of the string.  -0 is 0.
SliceFrom(s, start) == SubSeq(s, SliceIndex(start, Len(s)) + 1, Len(s))

\* if (text.length <= maxLength) return text
\* const halfLength = Math.floor((maxLength - 3) / 2)
\* return `${text.slice(0, halfLength)}...${text.slice(-halfLength)}`
truncateMiddle(str, maxLen) ==
    IF Len(str) <= maxLen THEN str
    ELSE LET halfLength == (maxLen - Len(Ellipsis)) \div 2
         IN Slice(str, 0, halfLength) \o Ellipsis \o SliceFrom(str, -halfLength)

\* maxLength: number = 100
DefaultMaxLength == 100

\* Longest text handed to truncateMiddle
MaxTextLen == 6

\* Largest maxLength handed to truncateMiddle; the smallest is the length of
\* the ellipsis, below which no result can both hold it and fit
MaxMaxLength == 8

TextChars == {"a", "b", "c"}

InitTruncate ==
    /\ pc = "input"
    /\ text \in SeqsUpTo(TextChars, MaxTextLen)
    /\ maxLength \in Len(Ellipsis)..MaxMaxLength
    /\ events = <<>>
    /\ grouped = NoResult
    /\ relatedEvents = NoResult
    /\ reportData = NoResult
    /\ timeRange = None
    /\ html = NoResult
    /\ truncated = NoResult
    /\ RestIdle

Truncate ==
    /\ pc = "input"
    /\ truncated' = truncateMiddle(text, maxLength)
    /\ pc' = "done"
    /\ UNCHANGED <<events, grouped, relatedEvents, reportData, timeRange, html,
                   text, maxLength>>
    /\ UNCHANGED restVars

NextTruncate == Truncate

SpecTruncate == InitTruncate /\ [][NextTruncate]_vars

-----------------------------------------------------------------------------
(* C4 *)

\* C4 (as claimed): for every text and every maxLength with
\* length(text) > maxLength, the result has length <= maxLength, contains
\* "...", starts with the first floor((maxLength-3)/2) characters of the text
\* and ends with its last floor((maxLength-3)/2) characters; a text of length
\* <= maxLength is returned unchanged.
C4_TruncateFits ==
    pc = "done" =>
        IF Len(text) > maxLength THEN
            LET half == (maxLength - 3) \div 2 IN
            /\ Len(truncated) <= maxLength
            /\ Includes(truncated, Ellipsis)
            /\ SubSeq(truncated, 1, half) = SubSeq(text, 1, half)
            /\ SubSeq(truncated, Len(truncated) - half + 1, Len(truncated))
                   = SubSeq(text, Len(text) - half + 1, Len(text))
        ELSE truncated = text

-----------------------------------------------------------------------------
(* formatReportAsHtml *)

\* String.prototype.replace(/c/g, by) for a one-character pattern
ReplaceAll(s, c, by) ==
    Concat([i \in DOMAIN s |-> IF s[i] = c THEN by ELSE <<s[i]>>])

Amp == <<"&", "a", "m", "p", ";">>

Lt == <<"&", "l", "t", ";">>

Gt == <<"&", "g", "t", ";">>

Quot == <<"&", "q", "u", "o", "t", ";">>

Apos == <<"&", "#", "0", "3", "9", ";">>

\* mutant: the replacement of "<" is missing
escapeHtml_mut(s) ==
    ReplaceAll(ReplaceAll(ReplaceAll(ReplaceAll(s, "&", Amp), ">", Gt), "\"", Quot),
               "'", Apos)

\* text.replace(/&/g, "&amp;").replace(/</g, "&lt;").replace(/>/g, "&gt;")
\*     .replace(/"/g, "&quot;").replace(/'/g, "&#039;")
escapeHtml(s) ==
    ReplaceAll(
        ReplaceAll(
            ReplaceAll(
                ReplaceAll(
                    ReplaceAll(s, "&", Amp),
                    "<", Lt),
                ">", Gt),
            "\"", Quot),
        "'", Apos)

\* A Date: a calendar day and the milliseconds since the start of that day, or
\* an invalid date (new Date('invalid')).  The time zone of the session is
\* taken to be UTC, so the local fields and the UTC fields are the same.
DateTime(y, m, d, ms) == [valid |-> TRUE, y |-> y, m |-> m, d |-> d, ms |-> ms]

\* new Date('YYYY-MM-DD'): the start of that day
Date(y, m, d) == DateTime(y, m, d, 0)

InvalidDate == [valid |-> FALSE, y |-> 0, m |-> 0, d |-> 0, ms |-> 0]

\* The day new Date() falls on
Today == Date(2026, 11, 2)

RECURSIVE PadStart(_, _)
\* Decimal digits of n, padded with zeroes to at least w digits
PadStart(n, w) ==
    LET ds == NumberToString(n)
    IN IF Len(ds) >= w THEN ds ELSE <<"0">> \o PadStart(n, w - 1)

\* Date.prototype.toISOString of a valid date: YYYY-MM-DDTHH:mm:ss.sssZ
toISOString(date) ==
    PadStart(date.y, 4) \o <<"-">> \o PadStart(date.m, 2) \o <<"-">>
        \o PadStart(date.d, 2) \o <<"T">>
        \o PadStart(date.ms \div 3600000, 2) \o <<":">>
        \o PadStart((date.ms \div 60000) % 60, 2) \o <<":">>
        \o PadStart((date.ms \div 1000) % 60, 2) \o <<".">>
        \o PadStart(date.ms % 1000, 3) \o <<"Z">>

\* s.split(c)[0]
BeforeFirst(s, c) ==
    IF \E i \in DOMAIN s : s[i] = c
    THEN LET first == CHOOSE i \in DOMAIN s :
                          s[i] = c /\ \A j \in 1..(i - 1) : s[j] # c
         IN SubSeq(s, 1, first - 1)
    ELSE s

\* mutant: the RangeError of toISOString is not caught, the fields of the
\* invalid date are written
formatDateForUrl_mut(date) == BeforeFirst(toISOString(date), "T")

\* try { return date.toISOString().split('T')[0] }
\* catch (error) { return new Date().toISOString().split('T')[0] }
\* (toISOString throws a RangeError on an invalid date)
formatDateForUrl(date) ==
    IF date.valid THEN BeforeFirst(toISOString(date), "T")
    ELSE BeforeFirst(toISOString(Today), "T")

\* encodeURIComponent of one character: unreserved characters stay, the others
\* become their percent-encoding
EncodeChar(c) ==
    CASE c = "<" -> <<"%", "3", "C">>
      [] c = ">" -> <<"%", "3", "E">>
      [] c = "\"" -> <<"%", "2", "2">>
      [] c = "&" -> <<"%", "2", "6">>
      [] c = "?" -> <<"%", "3", "F">>
      [] c = "=" -> <<"%", "3", "D">>
      [] c = "/" -> <<"%", "2", "F">>
      [] c = ":" -> <<"%", "3", "A">>
      [] c = " " -> <<"%", "2", "0">>
      [] OTHER -> <<c>>

encodeURIComponent(s) == Concat([i \in DOMAIN s |-> EncodeChar(s[i])])

PullRequestsTitle == <<"P", "u", "l", "l", " ", "R", "e", "q", "u", "e", "s", "t", "s">>

IssuesTitle == <<"I", "s", "s", "u", "e", "s">>

\* category.title === "Pull Requests" ? "PRs" : category.title
categoryPrefix(title) == IF title = PullRequestsTitle THEN <<"P", "R", "s">> ELSE title

\* A piece of the output: text of the template (data = FALSE) or the value of
\* an interpolation ${...} (data = TRUE)
Lit(s) == [data |-> FALSE, text |-> s]

Interp(s) == [data |-> TRUE, text |-> s]

\* mutant: the separator is "?" whatever the url
urlWithTimeRange_mut(url, range) ==
    IF Has(range) THEN
        url \o <<"?">> \o <<"t", "i", "m", "e", "S", "t", "a", "r", "t", "=">> \o encodeURIComponent(formatDateForUrl(Val(range).startDate))
            \o <<"&", "t", "i", "m", "e", "E", "n", "d", "=">> \o encodeURIComponent(formatDateForUrl(Val(range).endDate))
    ELSE url

\* urlWithTimeRange
urlWithTimeRange(url, range) ==
    IF Has(range) THEN
        LET startDate == formatDateForUrl(Val(range).startDate)
            endDate == formatDateForUrl(Val(range).endDate)
            separator == IF Includes(url, <<"?">>) THEN <<"&">> ELSE <<"?">>
        IN url \o separator \o <<"t", "i", "m", "e", "S", "t", "a", "r", "t", "=">> \o encodeURIComponent(startDate)
               \o <<"&", "t", "i", "m", "e", "E", "n", "d", "=">> \o encodeURIComponent(endDate)
    ELSE url

\* `  <li><a href="${escapeHtml(urlWithTimeRange)}">${escapeHtml(truncateMiddle(item.title))}</a></li>\n`
itemPieces(item, range) ==
    << Lit(<<" ", " ", "<", "l", "i", ">", "<", "a", " ", "h", "r", "e", "f", "=", "\"">>),
       Interp(escapeHtml(urlWithTimeRange(item.url, range))),
       Lit(<<"\"", ">">>),
       Interp(escapeHtml(truncateMiddle(item.title, DefaultMaxLength))),
       Lit(<<"<", "/", "a", ">", "<", "/", "l", "i", ">", "\n">>) >>

\* `<h3>${escapeHtml(categoryPrefix)} - ${escapeHtml(section.title)}</h3>\n<ul>\n`,
\* the items, `</ul>\n\n`
sectionPieces(category, section, range) ==
    << Lit(<<"<", "h", "3", ">">>),
       Interp(escapeHtml(categoryPrefix(category.title))),
       Lit(<<" ", "-", " ">>),
       Interp(escapeHtml(section.title)),
       Lit(<<"<", "/", "h", "3", ">", "\n", "<", "u", "l", ">", "\n">>) >>
    \o Concat([i \in DOMAIN section.items |-> itemPieces(section.items[i], range)])
    \o << Lit(<<"<", "/", "u", "l", ">", "\n", "\n">>) >>

\* `<p class="time-range">Time Range: ${escapeHtml(startDate)} to ${escapeHtml(endDate)}</p>\n\n`
timeRangePieces(range) ==
    IF Has(range) THEN
        << Lit(<<"<", "p", " ", "c", "l", "a", "s", "s", "=", "\"", "t", "i", "m", "e", "-", "r", "a", "n", "g", "e", "\"", ">", "T", "i", "m", "e", " ", "R", "a", "n", "g", "e", ":", " ">>),
           Interp(escapeHtml(formatDateForUrl(Val(range).startDate))),
           Lit(<<" ", "t", "o", " ">>),
           Interp(escapeHtml(formatDateForUrl(Val(range).endDate))),
           Lit(<<"<", "/", "p", ">", "\n", "\n">>) >>
    ELSE <<>>

\* The pieces that formatReportAsHtml appends to html, in order
htmlPieces(report, range) ==
    timeRangePieces(range)
    \o Concat([c \in DOMAIN report |->
                 Concat([k \in DOMAIN report[c].sections |->
                           sectionPieces(report[c], report[c].sections[k], range)])])

formatReportAsHtml(report, range) ==
    LET pieces == htmlPieces(report, range)
    IN Concat([i \in DOMAIN pieces |-> pieces[i].text])

-----------------------------------------------------------------------------
(* formatReportForSlack *)

\* The bullet character U+2022 that starts an item line
Bullet == <<"*">>

\* urlWithTimeRange of formatReportForSlack: the dates are interpolated as
\* formatDateForUrl returns them
slackUrlWithTimeRange(url, range) ==
    IF Has(range) THEN
        LET startDate == formatDateForUrl(Val(range).startDate)
            endDate == formatDateForUrl(Val(range).endDate)
            separator == IF Includes(url, <<"?">>) THEN <<"&">> ELSE <<"?">>
        IN url \o separator \o <<"t", "i", "m", "e", "S", "t", "a", "r", "t", "=">> \o startDate
               \o <<"&", "t", "i", "m", "e", "E", "n", "d", "=">> \o endDate
    ELSE url

\* `• [${truncateMiddle(item.title)}](${urlWithTimeRange})\n`
slackItem(item, range) ==
    Bullet \o <<" ", "[">> \o truncateMiddle(item.title, DefaultMaxLength) \o <<"]", "(">>
        \o slackUrlWithTimeRange(item.url, range) \o <<")", "\n">>

\* `${categoryPrefix} - ${section.title}\n`, the items, "\n"
slackSection(category, section, range) ==
    categoryPrefix(category.title) \o <<" ", "-", " ">> \o section.title \o <<"\n">>
        \o Concat([i \in DOMAIN section.items |-> slackItem(section.items[i], range)])
        \o <<"\n">>

\* `Time Range: ${startDate} to ${endDate}\n\n`
slackTimeRange(range) ==
    IF Has(range) THEN
        <<"T", "i", "m", "e", " ", "R", "a", "n", "g", "e", ":", " ">> \o formatDateForUrl(Val(range).startDate) \o <<" ", "t", "o", " ">>
            \o formatDateForUrl(Val(range).endDate) \o <<"\n", "\n">>
    ELSE <<>>

formatReportForSlack(report, range) ==
    slackTimeRange(range)
    \o Concat([c \in DOMAIN report |->
                 Concat([k \in DOMAIN report[c].sections |->
                           slackSection(report[c], report[c].sections[k], range)])])

-----------------------------------------------------------------------------
(* The exports over reports with hostile titles and urls *)

\* Most items of a section handed to formatReportAsHtml
MaxHtmlItems == 2

RECURSIVE Repeat(_, _)
Repeat(s, n) == IF n = 0 THEN <<>> ELSE s \o Repeat(s, n - 1)

ScriptTitle == <<"<", "s", "c", "r", "i", "p", "t", ">", "a", "l", "e", "r", "t", "(", "'", "x", "s", "s", "'", ")", "<", "/", "s", "c", "r", "i", "p", "t", ">">>

\* A title of 120 characters, longer than the default maxLength
LongTitle == Repeat(<<"<", "b", ">">>, 40)

HtmlTitles == {ScriptTitle, LongTitle, <<"\"", "&">>}

\* A url with a query string of two parameters, and a url without one
HtmlUrls == {<<"u", "?", "a", "&", "b">>, <<"\"", ">", "<", "x", "'">>}

HtmlTimeRanges ==
    {None,
     Some([startDate |-> Date(2024, 3, 1), endDate |-> Date(2024, 3, 7)]),
     Some([startDate |-> InvalidDate, endDate |-> Date(2024, 3, 7)])}

Item(title, url) == [title |-> title, url |-> url]

Section(title, items) == [title |-> title, items |-> items]

Category(title, sections) == [title |-> title, sections |-> sections]

HtmlItems == {Item(t, u) : t \in HtmlTitles, u \in HtmlUrls}

\* A category of two sections, the second one empty
PlainCategory ==
    Category(IssuesTitle,
             <<Section(<<"O", "p", "e", "n", "e", "d">>, <<Item(<<"a">>, <<"u">>)>>),
               Section(<<"C", "l", "o", "s", "e", "d">>, <<>>)>>)

\* The plain titles together, and the hostile titles together
HtmlHeadings ==
    {<<PullRequestsTitle, <<"O", "p", "e", "n", "e", "d">>>>,
     <<(<<"<", "i", ">">>), (<<"a", "&", "<">>)>>}

HtmlCategories ==
    {Category(h[1], <<Section(h[2], items)>>) :
        h \in HtmlHeadings, items \in SeqsUpTo(HtmlItems, MaxHtmlItems)}

\* Reports of no category, of one category, and of two categories
HtmlReports ==
    {<<>>} \cup {<<c>> : c \in HtmlCategories}
           \cup {<<PlainCategory, c>> : c \in HtmlCategories}

InitHtml ==
    /\ pc = "input"
    /\ reportData \in HtmlReports
    /\ timeRange \in HtmlTimeRanges
    /\ events = <<>>
    /\ grouped = NoResult
    /\ relatedEvents = NoResult
    /\ html = NoResult
    /\ text = <<>>
    /\ maxLength = 0
    /\ truncated = NoResult
    /\ RestIdle

\* "Copy" writes the plain text first and the html after it, or the html alone
FormatSlack ==
    /\ pc = "input"
    /\ slackText' = formatReportForSlack(reportData, timeRange)
    /\ pc' = "slack"
    /\ UNCHANGED <<events, grouped, relatedEvents, reportData, timeRange, html,
                   text, maxLength, truncated>>
    /\ UNCHANGED <<dateVars, clientVars, viewVars>>

FormatHtml ==
    /\ pc \in {"input", "slack"}
    /\ html' = formatReportAsHtml(reportData, timeRange)
    /\ pc' = "done"
    /\ UNCHANGED <<events, grouped, relatedEvents, reportData, timeRange,
                   text, maxLength, truncated>>
    /\ UNCHANGED restVars

NextHtml == FormatSlack \/ FormatHtml

SpecHtml == InitHtml /\ [][NextHtml]_vars

-----------------------------------------------------------------------------
(* C5 *)

HtmlSpecialChars == {"<", ">", "\"", "'"}

ScriptOpen == <<"<", "s", "c", "r", "i", "p", "t", ">">>

EscapedScriptOpen == <<"&", "l", "t", ";", "s", "c", "r", "i", "p", "t", "&", "g", "t", ";">>

\* All items of a report
ReportItems(report) ==
    UNION {Range(sec.items) : sec \in UNION {Range(c.sections) : c \in Range(report)}}

\* C5: formatReportAsHtml escapes every interpolated category title, section
\* title, item title and item URL: the output is the template text with the
\* interpolated values in between, no interpolated value holds a less-than,
\* greater-than, double-quote or apostrophe character, the output holds no
\* literal "<script>", and a (short) title that holds "<script>" shows in the
\* output as "&lt;script&gt;".
C5_HtmlEscaped ==
    pc = "done" =>
        LET pieces == htmlPieces(reportData, timeRange) IN
        /\ html = Concat([i \in DOMAIN pieces |-> pieces[i].text])
        /\ \A i \in DOMAIN pieces :
              pieces[i].data => Range(pieces[i].text) \cap HtmlSpecialChars = {}
        /\ ~Includes(html, ScriptOpen)
        /\ (\E it \in ReportItems(reportData) :
                Includes(it.title, ScriptOpen) /\ Len(it.title) <= DefaultMaxLength)
              => Includes(html, EscapedScriptOpen)

\* C5 witness: a report whose category title, section title, item title and
\* item URL all hold special characters has been formatted, with a title that
\* is truncated before it is escaped
C5_Witness ==
    /\ pc = "done"
    /\ \E c \in Range(reportData) :
          /\ Range(c.title) \cap HtmlSpecialChars # {}
          /\ \E sec \in Range(c.sections) :
                /\ Range(sec.title) \cap HtmlSpecialChars # {}
                /\ \E it \in Range(sec.items) :
                      /\ it.title = ScriptTitle
                      /\ Range(it.url) \cap HtmlSpecialChars # {}
                /\ \E it \in Range(sec.items) : it.title = LongTitle
    /\ Includes(html, EscapedScriptOpen)
    /\ Includes(html, Lt \o <<"b">> \o Gt \o Ellipsis)

-----------------------------------------------------------------------------
(* prepareReportData *)

OpenedTitle == <<"O", "p", "e", "n", "e", "d">>

ReviewedTitle == <<"R", "e", "v", "i", "e", "w", "e", "d">>

MergedTitle == <<"M", "e", "r", "g", "e", "d">>

CommentedTitle == <<"C", "o", "m", "m", "e", "n", "t", "e", "d">>

ClosedTitle == <<"C", "l", "o", "s", "e", "d">>

\* Index of the first element of s that satisfies Test (Array.prototype.find),
\* 0 when there is none
FindIndex(s, Test(_)) ==
    IF \E i \in DOMAIN s : Test(s[i])
    THEN CHOOSE i \in DOMAIN s : Test(s[i]) /\ \A j \in 1..(i - 1) : ~Test(s[j])
    ELSE 0

\* mutant: the item is pushed without looking for an existing one
addToSection_mut(report, categoryTitle, sectionTitle, itemTitle, itemUrl) ==
    LET withCategory ==
            IF FindIndex(report, LAMBDA c : c.title = categoryTitle) = 0
            THEN Append(report, Category(categoryTitle, <<>>)) ELSE report
        ci == FindIndex(withCategory, LAMBDA c : c.title = categoryTitle)
        sections == withCategory[ci].sections
        withSection ==
            IF FindIndex(sections, LAMBDA s : s.title = sectionTitle) = 0
            THEN Append(sections, Section(sectionTitle, <<>>)) ELSE sections
        si == FindIndex(withSection, LAMBDA s : s.title = sectionTitle)
        items == withSection[si].items
    IN [withCategory EXCEPT ![ci].sections =
           [withSection EXCEPT ![si].items = Append(items, Item(itemTitle, itemUrl))]]

\* addToSection: find or create the category, find or create the section,
\* push the item unless the section has an item with the same url
addToSection(report, categoryTitle, sectionTitle, itemTitle, itemUrl) ==
    LET withCategory ==
            IF FindIndex(report, LAMBDA c : c.title = categoryTitle) = 0
            THEN Append(report, Category(categoryTitle, <<>>)) ELSE report
        ci == FindIndex(withCategory, LAMBDA c : c.title = categoryTitle)
        sections == withCategory[ci].sections
        withSection ==
            IF FindIndex(sections, LAMBDA s : s.title = sectionTitle) = 0
            THEN Append(sections, Section(sectionTitle, <<>>)) ELSE sections
        si == FindIndex(withSection, LAMBDA s : s.title = sectionTitle)
        items == withSection[si].items
        existingItem == FindIndex(items, LAMBDA item : item.url = itemUrl)
        withItem ==
            IF existingItem = 0 THEN Append(items, Item(itemTitle, itemUrl)) ELSE items
    IN [withCategory EXCEPT ![ci].sections = [withSection EXCEPT ![si].items = withItem]]

\* mutant: a merged pull request is listed only when its creator merged it
pullRequestCase_mut(report, event) ==
    IF ~Has(event.pull_request) THEN report
    ELSE LET pr == Val(event.pull_request)
         IN IF event.action = "opened" THEN
                addToSection(report, PullRequestsTitle, OpenedTitle, pr.title, pr.html_url)
            ELSE IF event.action = "closed" /\ pr.merged /\ pr.merged_by = pr.user THEN
                addToSection(report, PullRequestsTitle, MergedTitle, pr.title, pr.html_url)
            ELSE report

\* case "PullRequestEvent"
pullRequestCase(report, event) ==
    IF ~Has(event.pull_request) THEN report
    ELSE LET pr == Val(event.pull_request)
             action == event.action
             title == pr.title
             url == pr.html_url
             isMerged == pr.merged
             mergedBy == pr.merged_by
             creator == pr.user
         IN IF action = "opened" THEN
                addToSection(report, PullRequestsTitle, OpenedTitle, title, url)
            ELSE IF action = "closed" /\ isMerged /\ mergedBy = creator THEN
                addToSection(report, PullRequestsTitle, MergedTitle, title, url)
            ELSE IF action = "closed" /\ isMerged THEN
                addToSection(report, PullRequestsTitle, MergedTitle, title, url)
            ELSE report

\* case "PullRequestReviewEvent"
reviewCase(report, event) ==
    IF ~Has(event.pull_request) \/ ~Has(event.review) THEN report
    ELSE LET pr == Val(event.pull_request)
             review == Val(event.review)
         IN IF review.state = "approved" THEN
                addToSection(report, PullRequestsTitle, ReviewedTitle, pr.title, pr.html_url)
            ELSE report

\* case "IssuesEvent"
issuesCase(report, event) ==
    IF ~Has(event.issue) THEN report
    ELSE LET issue == Val(event.issue)
             action == event.action
         IN IF action = "opened" THEN
                addToSection(report, IssuesTitle, OpenedTitle, issue.title, issue.html_url)
            ELSE IF action = "closed" THEN
                addToSection(report, IssuesTitle, ClosedTitle, issue.title, issue.html_url)
            ELSE report

\* mutant: comments on pull requests are not skipped
issueCommentCase_mut(report, event) ==
    IF ~Has(event.issue) THEN report
    ELSE addToSection(report, IssuesTitle, CommentedTitle,
                      Val(event.issue).title, Val(event.issue).html_url)

\* case "IssueCommentEvent": if (!issue || issue.pull_request) break
issueCommentCase(report, event) ==
    IF ~Has(event.issue) \/ Has(Val(event.issue).pull_request) THEN report
    ELSE LET issue == Val(event.issue)
         IN addToSection(report, IssuesTitle, CommentedTitle, issue.title, issue.html_url)

\* The body of events.forEach(event => { switch (event.type) ... })
reportStep(report, event) ==
    CASE event.type = "PullRequestEvent" -> pullRequestCase(report, event)
      [] event.type = "PullRequestReviewEvent" -> reviewCase(report, event)
      [] event.type = "IssuesEvent" -> issuesCase(report, event)
      [] event.type = "IssueCommentEvent" -> issueCommentCase(report, event)
      [] OTHER -> report

RECURSIVE reportFold(_, _, _)
reportFold(report, evs, i) ==
    IF i > Len(evs) THEN report
    ELSE reportFold(reportStep(report, evs[i]), evs, i + 1)

\* Array.prototype.sort with a comparator that orders by Less: the sort is
\* stable, elements that compare equal keep their order
StableSort(s, Less(_, _)) ==
    LET pos(i) == 1 + Cardinality({j \in DOMAIN s :
                          \/ Less(s[j], s[i])
                          \/ (~Less(s[i], s[j]) /\ j < i)})
    IN [p \in DOMAIN s |-> s[CHOOSE i \in DOMAIN s : pos(i) = p]]

\* sectionOrder[a.title] || 99
sectionOrder(title) ==
    CASE title = OpenedTitle -> 1
      [] title = ReviewedTitle -> 2
      [] title = MergedTitle -> 3
      [] title = CommentedTitle -> 4
      [] title = ClosedTitle -> 5
      [] OTHER -> 99

\* mutant: the sections stay in the order of their creation
sortSections_mut(sections) == sections

\* category.sections.sort((a, b) => orderA - orderB)
sortSections(sections) ==
    StableSort(sections, LAMBDA a, b : sectionOrder(a.title) < sectionOrder(b.title))

\* The collation order of the characters of the URLs
Collation == <<"/", "0", "1", "2", "3", "4", "5", "6", "7", "8", "9", "a", "u">>

CharRank(c) == CHOOSE k \in DOMAIN Collation : Collation[k] = c

\* a.localeCompare(b) < 0
LocaleLess(a, b) ==
    \E k \in 1..(Len(b)) :
        /\ \A j \in 1..(k - 1) : j <= Len(a) /\ a[j] = b[j]
        /\ \/ k = Len(a) + 1
           \/ (k <= Len(a) /\ CharRank(a[k]) < CharRank(b[k]))

\* section.items.sort((a, b) => a.url.localeCompare(b.url))
sortItems(items) == StableSort(items, LAMBDA a, b : LocaleLess(a.url, b.url))

\* categoryOrder.indexOf(title)
categoryOrder(title) ==
    CASE title = PullRequestsTitle -> 0
      [] title = IssuesTitle -> 1
      [] OTHER -> -1

\* The comparator of the category sort is negative:
\* if (orderA === -1) return 1; if (orderB === -1) return -1; return orderA - orderB
categoryLess(a, b) ==
    IF categoryOrder(a.title) = -1 THEN FALSE
    ELSE IF categoryOrder(b.title) = -1 THEN TRUE
    ELSE categoryOrder(a.title) < categoryOrder(b.title)

\* Sort sections and items, then sort categories by priority
sortReport(report) ==
    StableSort(
        [c \in DOMAIN report |->
            LET sorted == sortSections(report[c].sections)
            IN Category(report[c].title,
                        [k \in DOMAIN sorted |->
                            Section(sorted[k].title, sortItems(sorted[k].items))])],
        categoryLess)

prepareReportData(evs) == sortReport(reportFold(<<>>, evs, 1))

\* Longest input list of the report builder
MaxReportEvents == 3

\* <<title, url>> of the pull requests and issues of the input: two titles
\* under one url, and a second url
SubjectA1 == <<(<<"A">>), (<<"u", "/", "1">>)>>

SubjectB1 == <<(<<"B">>), (<<"u", "/", "1">>)>>

SubjectA2 == <<(<<"A">>), (<<"u", "/", "2">>)>>

ReportRepo == "org/repo"

\* A pull request of user alice; by = "" when it is not merged
ReportPr(subject, by) ==
    PullRequest(1, subject[1], subject[2], by # "", by, "alice", None)

\* An issue; asPr is present when it is in fact a pull request
ReportIssue(subject, asPr) == Issue(1, subject[1], subject[2], asPr)

Review(state) == [state |-> state]

PrEvent(action, pr) == Event("PullRequestEvent", ReportRepo, action, pr, None, None)

ReviewEvent(pr, review) ==
    Event("PullRequestReviewEvent", ReportRepo, "created", pr, None, review)

IssuesEvent(action, issue) == Event("IssuesEvent", ReportRepo, action, None, issue, None)

CommentEvent(issue) == Event("IssueCommentEvent", ReportRepo, "created", None, issue, None)

\* Every branch of the switch, with two records of one url in "Opened"
ReportEvents ==
    {PrEvent("opened", Some(ReportPr(SubjectA1, ""))),
     PrEvent("opened", Some(ReportPr(SubjectB1, ""))),
     PrEvent("closed", Some(ReportPr(SubjectA1, "bob"))),
     PrEvent("closed", Some(ReportPr(SubjectA2, "alice"))),
     PrEvent("closed", Some(ReportPr(SubjectA1, ""))),
     PrEvent("reopened", Some(ReportPr(SubjectA1, ""))),
     PrEvent("opened", None),
     ReviewEvent(Some(ReportPr(SubjectA2, "")), Some(Review("approved"))),
     ReviewEvent(Some(ReportPr(SubjectA1, "")), Some(Review("commented"))),
     ReviewEvent(Some(ReportPr(SubjectA1, "")), None),
     ReviewEvent(None, Some(Review("approved"))),
     IssuesEvent("opened", Some(ReportIssue(SubjectA1, None))),
     IssuesEvent("opened", Some(ReportIssue(SubjectB1, None))),
     IssuesEvent("closed", Some(ReportIssue(SubjectA1, None))),
     IssuesEvent("closed", Some(ReportIssue(SubjectA2, None))),
     IssuesEvent("reopened", Some(ReportIssue(SubjectA1, None))),
     IssuesEvent("opened", None),
     CommentEvent(Some(ReportIssue(SubjectA1, None))),
     CommentEvent(Some(ReportIssue(SubjectA2, Some(SubjectA2[2])))),
     CommentEvent(None),
     Event("PushEvent", ReportRepo, "", None, None, None)}

InitReport ==
    /\ pc = "input"
    /\ events \in SeqsUpTo(ReportEvents, MaxReportEvents)
    /\ Idle

PrepareReport ==
    /\ pc = "input"
    /\ reportData' = prepareReportData(events)
    /\ pc' = "done"
    /\ UNCHANGED <<events, grouped, relatedEvents, timeRange, html,
                   text, maxLength, truncated>>
    /\ UNCHANGED restVars

NextReport == PrepareReport

SpecReport == InitReport /\ [][NextReport]_vars

-----------------------------------------------------------------------------
(* C6 .. C10 *)

\* The title and url prepareReportData reads from event e, when its payload has
\* the pull request (PullRequestEvent, PullRequestReviewEvent) or the issue
\* (IssuesEvent, IssueCommentEvent)
Subject(e) ==
    IF e.type \in {"PullRequestEvent", "PullRequestReviewEvent"} THEN e.pull_request
    ELSE IF e.type \in {"IssuesEvent", "IssueCommentEvent"} THEN e.issue
    ELSE None

\* The event carries the payload its type is about (a review event: the pull
\* request and the review)
WellFormed(e) ==
    /\ Has(Subject(e))
    /\ e.type = "PullRequestReviewEvent" => Has(e.review)

\* The <<category, section>> that the rules of C8 and C9 give a well-formed
\* event, None when they give it no section
RuleSection(e) ==
    IF ~WellFormed(e) THEN None
    ELSE IF e.type = "PullRequestEvent" /\ e.action = "opened"
        THEN Some(<<PullRequestsTitle, OpenedTitle>>)
    ELSE IF e.type = "PullRequestEvent" /\ e.action = "closed"
            /\ Val(e.pull_request).merged = TRUE
        THEN Some(<<PullRequestsTitle, MergedTitle>>)
    ELSE IF e.type = "PullRequestReviewEvent" /\ Val(e.review).state = "approved"
        THEN Some(<<PullRequestsTitle, ReviewedTitle>>)
    ELSE IF e.type = "IssuesEvent" /\ e.action = "opened"
        THEN Some(<<IssuesTitle, OpenedTitle>>)
    ELSE IF e.type = "IssuesEvent" /\ e.action = "closed"
        THEN Some(<<IssuesTitle, ClosedTitle>>)
    ELSE IF e.type = "IssueCommentEvent" /\ ~Has(Val(e.issue).pull_request)
        THEN Some(<<IssuesTitle, CommentedTitle>>)
    ELSE None

\* The items of section sec of category cat in the report, <<>> when the report
\* has no such section
ItemsOf(cat, sec) ==
    Concat([c \in DOMAIN reportData |->
              IF reportData[c].title # cat THEN <<>>
              ELSE Concat([k \in DOMAIN reportData[c].sections |->
                             IF reportData[c].sections[k].title = sec
                             THEN reportData[c].sections[k].items ELSE <<>>])])

UrlsOf(cat, sec) == {it.url : it \in Range(ItemsOf(cat, sec))}

\* The urls of the input events that satisfy Test
EventUrls(Test(_)) ==
    {Val(Subject(events[i])).html_url : i \in {j \in DOMAIN events : Test(events[j])}}

\* Records i and j map to the same section
SameSection(i, j) ==
    Has(RuleSection(events[i])) /\ RuleSection(events[i]) = RuleSection(events[j])

\* C6 (as claimed): two input records that map to the same section with
\* identical (title, url) produce exactly one item there: the section holds the
\* item (title, url), the retained first occurrence, exactly once.
C6_PairDeduplicated ==
    pc = "done" =>
        \A i, j \in DOMAIN events :
            (/\ i < j
             /\ SameSection(i, j)
             /\ Val(Subject(events[i])).title = Val(Subject(events[j])).title
             /\ Val(Subject(events[i])).html_url = Val(Subject(events[j])).html_url)
            => LET where == Val(RuleSection(events[i]))
                   items == ItemsOf(where[1], where[2])
                   subject == Val(Subject(events[i]))
               IN Cardinality({k \in DOMAIN items :
                                 items[k] = Item(subject.title, subject.html_url)}) = 1

\* C6 (amended): the records that map to one section with the same url (so
\* also those with identical (title, url)) produce exactly one item there, and
\* it carries the title of the first of these records in input order.
C6_UrlDeduplicated ==
    pc = "done" =>
        \A i \in DOMAIN events :
            Has(RuleSection(events[i])) =>
                LET where == Val(RuleSection(events[i]))
                    items == ItemsOf(where[1], where[2])
                    url == Val(Subject(events[i])).html_url
                    SameUrl(j) == SameSection(i, j) /\ Val(Subject(events[j])).html_url = url
                    first == CHOOSE j \in DOMAIN events :
                                SameUrl(j) /\ \A l \in 1..(j - 1) : ~SameUrl(l)
                IN /\ Cardinality({k \in DOMAIN items : items[k].url = url}) = 1
                   /\ Item(Val(Subject(events[first])).title, url) \in Range(items)

\* C6 witness: two records with the same (title, url) went to one section
C6_Witness ==
    /\ pc = "done"
    /\ \E i, j \in DOMAIN events :
          /\ i < j
          /\ Has(RuleSection(events[i]))
          /\ RuleSection(events[i]) = RuleSection(events[j])
          /\ Val(Subject(events[i])).title = Val(Subject(events[j])).title
          /\ Val(Subject(events[i])).html_url = Val(Subject(events[j])).html_url
    /\ Len(reportData) = 1
    /\ Len(reportData[1].sections) = 1
    /\ Len(reportData[1].sections[1].items) = 1

ClosedUnmerged(e) ==
    /\ e.type = "PullRequestEvent"
    /\ Has(e.pull_request)
    /\ e.action = "closed"
    /\ Val(e.pull_request).merged # TRUE

\* C7 (as claimed): a PullRequestEvent with action "closed" whose pull request
\* is not merged yields an item in section "Closed" of category "Pull Requests".
C7_ClosedUnmergedListed ==
    pc = "done" =>
        \A i \in DOMAIN events :
            ClosedUnmerged(events[i]) =>
                Val(events[i].pull_request).html_url
                    \in UrlsOf(PullRequestsTitle, ClosedTitle)

\* C8: under "Pull Requests", "Opened" lists exactly the pull requests of the
\* PullRequestEvents with action "opened", "Reviewed" exactly those of the
\* PullRequestReviewEvents whose review state is "approved", and "Merged"
\* exactly those of the PullRequestEvents with action "closed" and
\* merged == true, whoever merged them (events that carry their pull request,
\* and their review).
C8_PullRequestSections ==
    pc = "done" =>
        /\ UrlsOf(PullRequestsTitle, OpenedTitle) =
              EventUrls(LAMBDA e : /\ e.type = "PullRequestEvent"
                                   /\ WellFormed(e)
                                   /\ e.action = "opened")
        /\ UrlsOf(PullRequestsTitle, ReviewedTitle) =
              EventUrls(LAMBDA e : /\ e.type = "PullRequestReviewEvent"
                                   /\ WellFormed(e)
                                   /\ Val(e.review).state = "approved")
        /\ UrlsOf(PullRequestsTitle, MergedTitle) =
              EventUrls(LAMBDA e : /\ e.type = "PullRequestEvent"
                                   /\ WellFormed(e)
                                   /\ e.action = "closed"
                                   /\ Val(e.pull_request).merged = TRUE)

\* C8 witness: a pull request merged by someone else than its creator is under
\* "Merged", next to a review that is not an approval and left no item
C8_Witness ==
    /\ pc = "done"
    /\ \E i, j \in DOMAIN events :
          /\ events[i].type = "PullRequestEvent"
          /\ events[i].action = "closed"
          /\ WellFormed(events[i])
          /\ Val(events[i].pull_request).merged
          /\ Val(events[i].pull_request).merged_by # Val(events[i].pull_request).user
          /\ events[j].type = "PullRequestReviewEvent"
          /\ WellFormed(events[j])
          /\ Val(events[j].review).state = "commented"
    /\ UrlsOf(PullRequestsTitle, MergedTitle) # {}
    /\ UrlsOf(PullRequestsTitle, ReviewedTitle) = {}

\* All section titles of category cat in the report
SectionTitlesOf(cat) ==
    UNION {{s.title : s \in Range(c.sections)} :
             c \in {x \in Range(reportData) : x.title = cat}}

\* C9: under "Issues", "Opened" lists exactly the issues of the IssuesEvents
\* with action "opened", "Closed" exactly those with action "closed", and
\* "Commented" exactly the issues of the IssueCommentEvents whose issue is
\* present and is not itself a pull request; the category has no other
\* section, so a comment on a pull request produces no item.
C9_IssueSections ==
    pc = "done" =>
        /\ UrlsOf(IssuesTitle, OpenedTitle) =
              EventUrls(LAMBDA e : /\ e.type = "IssuesEvent"
                                   /\ WellFormed(e)
                                   /\ e.action = "opened")
        /\ UrlsOf(IssuesTitle, ClosedTitle) =
              EventUrls(LAMBDA e : /\ e.type = "IssuesEvent"
                                   /\ WellFormed(e)
                                   /\ e.action = "closed")
        /\ UrlsOf(IssuesTitle, CommentedTitle) =
              EventUrls(LAMBDA e : /\ e.type = "IssueCommentEvent"
                                   /\ Has(e.issue)
                                   /\ ~Has(Val(e.issue).pull_request))
        /\ SectionTitlesOf(IssuesTitle) \subseteq {OpenedTitle, CommentedTitle, ClosedTitle}
        /\ {c.title : c \in Range(reportData)} \subseteq {PullRequestsTitle, IssuesTitle}
        /\ (\A i \in DOMAIN events :
               events[i].type = "IssueCommentEvent"
               /\ (~Has(events[i].issue) \/ Has(Val(events[i].issue).pull_request))
            ) => reportData = <<>>

\* C9 witness: a comment on an issue is under "Commented" while a comment on a
\* pull request with another url left no item
C9_Witness ==
    /\ pc = "done"
    /\ \E i, j \in DOMAIN events :
          /\ events[i].type = "IssueCommentEvent"
          /\ events[j].type = "IssueCommentEvent"
          /\ Has(events[i].issue)
          /\ Has(events[j].issue)
          /\ ~Has(Val(events[i].issue).pull_request)
          /\ Has(Val(events[j].issue).pull_request)
          /\ Val(events[i].issue).html_url # Val(events[j].issue).html_url
    /\ Cardinality(UrlsOf(IssuesTitle, CommentedTitle)) = 1

\* The fixed order of the claim; any other title comes after these
FixedSectionOrder ==
    <<OpenedTitle, ReviewedTitle, MergedTitle, CommentedTitle, ClosedTitle>>

SectionPlace(title) ==
    IF \E k \in DOMAIN FixedSectionOrder : FixedSectionOrder[k] = title
    THEN CHOOSE k \in DOMAIN FixedSectionOrder : FixedSectionOrder[k] = title
    ELSE Len(FixedSectionOrder) + 1

\* C10: in every category of the report the sections appear in the order
\* Opened, Reviewed, Merged, Commented, Closed, whatever the order of the
\* input records, with sections of any other title after these.
C10_SectionOrder ==
    pc = "done" =>
        \A c \in DOMAIN reportData :
            \A k, l \in DOMAIN reportData[c].sections :
                k < l =>
                    /\ SectionPlace(reportData[c].sections[k].title)
                          <= SectionPlace(reportData[c].sections[l].title)
                    /\ SectionPlace(reportData[c].sections[k].title) <= Len(FixedSectionOrder)
                          => SectionPlace(reportData[c].sections[k].title)
                                < SectionPlace(reportData[c].sections[l].title)

\* C10 witness: the input has a record of a later section before a record of
\* an earlier section of the same category, and the report lists both sections
C10_Witness ==
    /\ pc = "done"
    /\ \E i, j \in DOMAIN events :
          /\ i < j
          /\ Has(RuleSection(events[i]))
          /\ Has(RuleSection(events[j]))
          /\ Val(RuleSection(events[i]))[1] = Val(RuleSection(events[j]))[1]
          /\ SectionPlace(Val(RuleSection(events[i]))[2])
                > SectionPlace(Val(RuleSection(events[j]))[2])
    /\ \E c \in DOMAIN reportData : Len(reportData[c].sections) = 2


-----------------------------------------------------------------------------
(* C11 *)

\* The url has a query string
HasQuery(url) == "?" \in Range(url)

\* The url with timeStart and timeEnd appended after its own query string, if any
WithTimeRange(url, start, end) ==
    url \o (IF HasQuery(url) THEN <<"&">> ELSE <<"?">>)
        \o <<"t", "i", "m", "e", "S", "t", "a", "r", "t", "=">> \o start \o <<"&", "t", "i", "m", "e", "E", "n", "d", "=">> \o end

\* C11: when a time range is passed, the Slack text links every item to its
\* url followed by "?" (no query string) or "&" (a query string, kept as it
\* was) and timeStart=..&timeEnd=.., and the HTML export has the same address
\* in the href of every item with each "&" written as "&amp;".
C11_TimeRangeAppended ==
    Has(timeRange) =>
        LET start == formatDateForUrl(Val(timeRange).startDate)
            end == formatDateForUrl(Val(timeRange).endDate)
        IN /\ slackText # NoResult =>
                \A it \in ReportItems(reportData) :
                    Includes(slackText,
                             <<"]", "(">> \o WithTimeRange(it.url, start, end) \o <<")", "\n">>)
           /\ pc = "done" =>
                \A it \in ReportItems(reportData) :
                    /\ Includes(html,
                                <<"<", "a", " ", "h", "r", "e", "f", "=", "\"">> \o escapeHtml(WithTimeRange(it.url, start, end))
                                    \o <<"\"", ">">>)
                    /\ Range(it.url) \cap HtmlSpecialChars = {} =>
                          Includes(html,
                                   <<"<", "a", " ", "h", "r", "e", "f", "=", "\"">> \o ReplaceAll(it.url, "&", Amp)
                                       \o (IF HasQuery(it.url) THEN Amp ELSE <<"?">>)
                                       \o <<"t", "i", "m", "e", "S", "t", "a", "r", "t", "=">> \o start \o Amp
                                       \o <<"t", "i", "m", "e", "E", "n", "d", "=">> \o end \o <<"\"", ">">>)

\* C11 witness: a report with an item whose url has a query string and an item
\* whose url has none was exported both ways with a time range
C11_Witness ==
    /\ pc = "done"
    /\ slackText # NoResult
    /\ Has(timeRange)
    /\ \E it \in ReportItems(reportData) : HasQuery(it.url)
    /\ \E it \in ReportItems(reportData) : ~HasQuery(it.url)
    /\ Includes(slackText, <<"u", "?", "a", "&", "b", "&", "t", "i", "m", "e", "S", "t", "a", "r", "t", "=", "2", "0", "2", "4", "-", "0", "3", "-", "0", "1", "&", "t", "i", "m", "e", "E", "n", "d", "=", "2", "0", "2", "4", "-", "0", "3", "-", "0", "7", ")">>)
    /\ Includes(html, <<"u", "?", "a", "&", "a", "m", "p", ";", "b", "&", "a", "m", "p", ";", "t", "i", "m", "e", "S", "t", "a", "r", "t", "=", "2", "0", "2", "4", "-", "0", "3", "-", "0", "1", "&", "a", "m", "p", ";", "t", "i", "m", "e", "E", "n", "d", "=", "2", "0", "2", "4", "-", "0", "3", "-", "0", "7", "\"">>)
    /\ Includes(html, Apos \o <<"?", "t", "i", "m", "e", "S", "t", "a", "r", "t", "=">>)

-----------------------------------------------------------------------------
(* parseDateFromUrl and formatDateForUrl over dates and date strings *)

\* null
Null == None

IsDigit(c) == \E i \in DOMAIN Digits : Digits[i] = c

DigitValue(c) == (CHOOSE i \in DOMAIN Digits : Digits[i] = c) - 1

RECURSIVE ParseDigits(_)
\* The number that a string of digits writes
ParseDigits(s) ==
    IF s = <<>> THEN 0
    ELSE 10 * ParseDigits(SubSeq(s, 1, Len(s) - 1)) + DigitValue(s[Len(s)])

IsLeapYear(y) == (y % 4 = 0 /\ y % 100 # 0) \/ y % 400 = 0

DaysInMonth(y, m) ==
    IF m = 2 THEN (IF IsLeapYear(y) THEN 29 ELSE 28)
    ELSE IF m \in {4, 6, 9, 11} THEN 30 ELSE 31

\* The string has the date-only form YYYY-MM-DD of the ISO format
IsDateOnlyForm(s) ==
    /\ Len(s) = 10
    /\ s[5] = "-" /\ s[8] = "-"
    /\ \A i \in {1, 2, 3, 4, 6, 7, 9, 10} : IsDigit(s[i])

\* new Date(dateStr), the outcomes a JavaScript engine can produce.  A string
\* of the date-only form with a month 1..12 and a day of that month is that
\* day.  A day after the last day of the month but not after 31 is an illegal
\* element value: an engine either rejects it or (V8) rolls it over into the
\* next month.  Every other string of the universe is an invalid date.
NewDate(dateStr) ==
    IF ~IsDateOnlyForm(dateStr) THEN {InvalidDate}
    ELSE LET y == ParseDigits(SubSeq(dateStr, 1, 4))
             m == ParseDigits(SubSeq(dateStr, 6, 7))
             d == ParseDigits(SubSeq(dateStr, 9, 10))
         IN IF m \notin 1..12 \/ d \notin 1..31 THEN {InvalidDate}
            ELSE IF d <= DaysInMonth(y, m) THEN {Date(y, m, d)}
            ELSE {InvalidDate,
                  IF m = 12 THEN Date(y + 1, 1, d - DaysInMonth(y, m))
                  ELSE Date(y, m + 1, d - DaysInMonth(y, m))}

\* const date = new Date(dateStr); return isNaN(date.getTime()) ? null : date
\* (the results that the outcomes of new Date give)
parseDateFromUrl(dateStr) ==
    {IF date.valid THEN Some(date) ELSE Null : date \in NewDate(dateStr)}

\* Time of day of the last millisecond of a day
EndOfDayMs == 86399999

DateStrings ==
    {<<"2", "0", "2", "4", "-", "0", "3", "-", "0", "1">>, <<"2", "0", "2", "4", "-", "0", "2", "-", "2", "9">>, <<"2", "0", "2", "3", "-", "0", "2", "-", "2", "9">>, <<"2", "0", "2", "3", "-", "1", "2", "-", "3", "1">>,
     <<"2", "0", "2", "4", "-", "1", "3", "-", "4", "5">>, <<"2", "0", "2", "4", "-", "0", "0", "-", "1", "0">>, <<"i", "n", "v", "a", "l", "i", "d", "-", "d", "a", "t", "e">>, <<"2", "0", "2", "4", "-", "0", "3", "-", "1", "x">>, <<>>}

\* Dates handed to formatDateForUrl: days at the start, the middle and the end
\* of a month and a year, at the first and the last millisecond of the day and
\* at 15:30, and the invalid date
DateInputs ==
    {DateTime(y, m, d, ms) :
        y \in {1999, 2024}, m \in {1, 2, 12}, d \in {1, 9, 28},
        ms \in {0, 55800000, EndOfDayMs}}
    \cup {InvalidDate}

InitDates ==
    /\ pc = "input"
    /\ dateInput \in DateInputs
    /\ urlDate \in DateStrings
    /\ formattedDate = NoResult
    /\ parsedDate = NoResult
    /\ rangeStart = NoResult
    /\ rangeEnd = NoResult
    /\ dateRange = NoResult
    /\ events = <<>>
    /\ grouped = NoResult
    /\ relatedEvents = NoResult
    /\ reportData = NoResult
    /\ timeRange = None
    /\ html = NoResult
    /\ text = <<>>
    /\ maxLength = 0
    /\ truncated = NoResult
    /\ ExportIdle
    /\ ClientIdle
    /\ ViewIdle

ParseDate ==
    /\ pc = "input"
    /\ parsedDate' \in parseDateFromUrl(urlDate)
    /\ pc' = "parsed"
    /\ UNCHANGED <<dateInput, urlDate, formattedDate, rangeStart, rangeEnd, dateRange>>
    /\ UNCHANGED <<events, grouped, relatedEvents, reportData, timeRange, html,
                   text, maxLength, truncated, exportVars, clientVars, viewVars>>

FormatDate ==
    /\ pc = "parsed"
    /\ formattedDate' = formatDateForUrl(dateInput)
    /\ pc' = "done"
    /\ UNCHANGED <<dateInput, urlDate, parsedDate, rangeStart, rangeEnd, dateRange>>
    /\ UNCHANGED <<events, grouped, relatedEvents, reportData, timeRange, html,
                   text, maxLength, truncated, exportVars, clientVars, viewVars>>

NextDates == ParseDate \/ FormatDate

SpecDates == InitDates /\ [][NextDates]_vars

-----------------------------------------------------------------------------
(* C12 *)

\* The decimal digit of n at the place of 10^k
DigitAt(n, k) == Digits[((n \div (10 ^ k)) % 10) + 1]

\* The day of a valid date written YYYY-MM-DD
Ymd(date) ==
    <<DigitAt(date.y, 3), DigitAt(date.y, 2), DigitAt(date.y, 1), DigitAt(date.y, 0), "-",
      DigitAt(date.m, 1), DigitAt(date.m, 0), "-",
      DigitAt(date.d, 1), DigitAt(date.d, 0)>>

\* Strings of the universe that no engine takes for a date: not of the form
\* YYYY-MM-DD, or with a month outside 01..12 or a day outside 01..31
NotADate(s) ==
    \/ ~IsDateOnlyForm(s)
    \/ ParseDigits(SubSeq(s, 6, 7)) \notin 1..12
    \/ ParseDigits(SubSeq(s, 9, 10)) \notin 1..31

\* C12: formatDateForUrl always returns a string of the form YYYY-MM-DD: the
\* day of a valid date, the current day for an invalid date.  parseDateFromUrl
\* returns null for a string that is not a date and never returns an invalid
\* date.
C12_DatesCoerced ==
    /\ pc = "done" =>
          /\ IsDateOnlyForm(formattedDate)
          /\ dateInput.valid => formattedDate = Ymd(dateInput)
          /\ ~dateInput.valid => formattedDate = Ymd(Today)
    /\ pc \in {"parsed", "done"} =>
          /\ NotADate(urlDate) => parsedDate = Null
          /\ parsedDate # Null => Val(parsedDate).valid

\* C12 witness: an invalid date was formatted as the current day, after a
\* string that is not a date was parsed to null
C12_Witness ==
    /\ pc = "done"
    /\ ~dateInput.valid
    /\ formattedDate = <<"2", "0", "2", "6", "-", "1", "1", "-", "0", "2">>
    /\ urlDate = <<"i", "n", "v", "a", "l", "i", "d", "-", "d", "a", "t", "e">>
    /\ parsedDate = Null

-----------------------------------------------------------------------------
(* validateDateRange *)

\* The time value of valid date a is greater than that of valid date b (the
\* fields are compared from the year down, which orders dates as their
\* millisecond counts do)
Later(a, b) ==
    \/ a.y > b.y
    \/ a.y = b.y /\ a.m > b.m
    \/ a.y = b.y /\ a.m = b.m /\ a.d > b.d
    \/ a.y = b.y /\ a.m = b.m /\ a.d = b.d /\ a.ms > b.ms

\* a > b on two Dates: the time values are compared, and every comparison with
\* NaN (the time value of an invalid date) is false
DateAfter(a, b) == a.valid /\ b.valid /\ Later(a, b)

\* a <= b on two Dates
DateNotAfter(a, b) == a.valid /\ b.valid /\ ~Later(a, b)

\* startOfDay of date-fns: 00:00:00.000 of the day, Invalid Date for an invalid date
startOfDay(date) == IF date.valid THEN [date EXCEPT !.ms = 0] ELSE InvalidDate

\* endOfDay of date-fns: 23:59:59.999 of the day, Invalid Date for an invalid date
endOfDay(date) == IF date.valid THEN [date EXCEPT !.ms = EndOfDayMs] ELSE InvalidDate

\* if (!start || !end) return null: a Date object, valid or not, is truthy
validateDateRange(start, end) ==
    IF start = Null \/ end = Null THEN Null
    ELSE LET newStart == Val(start)
             newEnd == IF DateAfter(Val(start), Val(end)) THEN newStart ELSE Val(end)
         IN Some([startDate |-> startOfDay(newStart), endDate |-> endOfDay(newEnd)])

\* Arguments of validateDateRange: null, the invalid date, and days of two
\* months at three times of day
RangeDates ==
    {Null, Some(InvalidDate)}
    \cup {Some(DateTime(2024, m, d, ms)) :
            m \in {2, 3}, d \in {1, 20, 25}, ms \in {0, 55800000, EndOfDayMs}}

InitRange ==
    /\ pc = "input"
    /\ rangeStart \in RangeDates
    /\ rangeEnd \in RangeDates
    /\ dateRange = NoResult
    /\ dateInput = NoResult
    /\ urlDate = NoResult
    /\ formattedDate = NoResult
    /\ parsedDate = NoResult
    /\ events = <<>>
    /\ grouped = NoResult
    /\ relatedEvents = NoResult
    /\ reportData = NoResult
    /\ timeRange = None
    /\ html = NoResult
    /\ text = <<>>
    /\ maxLength = 0
    /\ truncated = NoResult
    /\ ExportIdle
    /\ ClientIdle
    /\ ViewIdle

ValidateRange ==
    /\ pc = "input"
    /\ dateRange' = validateDateRange(rangeStart, rangeEnd)
    /\ pc' = "done"
    /\ UNCHANGED <<dateInput, urlDate, formattedDate, parsedDate, rangeStart, rangeEnd>>
    /\ UNCHANGED <<events, grouped, relatedEvents, reportData, timeRange, html,
                   text, maxLength, truncated, exportVars, clientVars, viewVars>>

NextRange == ValidateRange

SpecRange == InitRange /\ [][NextRange]_vars

-----------------------------------------------------------------------------
(* C13 *)

SameDay(a, b) == a.valid /\ b.valid /\ a.y = b.y /\ a.m = b.m /\ a.d = b.d

\* C13 (as claimed): validateDateRange returns null if either argument is null;
\* otherwise the returned startDate is at 00:00:00.000 of start's day, the
\* returned endDate is at 23:59:59.999, startDate <= endDate, and when start
\* is after end the returned endDate is the end of start's day.
C13_RangeValidated ==
    pc = "done" =>
        IF rangeStart = Null \/ rangeEnd = Null THEN dateRange = Null
        ELSE /\ dateRange # Null
             /\ SameDay(Val(dateRange).startDate, Val(rangeStart))
             /\ Val(dateRange).startDate.ms = 0
             /\ Val(dateRange).endDate.valid
             /\ Val(dateRange).endDate.ms = EndOfDayMs
             /\ DateNotAfter(Val(dateRange).startDate, Val(dateRange).endDate)
             /\ DateAfter(Val(rangeStart), Val(rangeEnd)) =>
                   SameDay(Val(dateRange).endDate, Val(rangeStart))

-----------------------------------------------------------------------------
(* GitHubEventViewerClient: fetchEvents and the handlers that call it *)

\* Most fetchEvents invocations that get past the duplicate check
MaxFetches == 2

\* The lists that parseUsernames returns for the user's input
UsernameLists == {<<"alice">>, <<"bob">>, <<"alice", "bob">>}

\* A record of the feed; created_at is a day
FeedEvent(id, login, created_at) == [id |-> id, login |-> login, created_at |-> created_at]

\* What api.github.com/users/<username>/events holds for each user
Feed(username) ==
    IF username = "alice" THEN <<FeedEvent(1, "alice", 3), FeedEvent(2, "alice", 1)>>
    ELSE <<FeedEvent(3, "bob", 2)>>

\* A response of the API: 200 with the feed, or an error status or a network
\* failure, which both end in the catch of the request
Ok(data) == [ok |-> TRUE, data |-> data]

Failure == [ok |-> FALSE, data |-> <<>>]

\* useState(subDays(new Date(), 4) at 00:00:00.000), useState(new Date() at
\* 23:59:59.999): the window of days that the component starts with
DefaultWindow == [startDate |-> 1, endDate |-> 3]

\* The windows of the date presets ("today", "threeDays")
Presets == {[startDate |-> 3, endDate |-> 3], [startDate |-> 2, endDate |-> 3]}

\* `${usernames.join(',')}-${startDate.toISOString()}-${endDate.toISOString()}`
requestKey(names, from, to) == <<names, from, to>>

\* useState<string>("") of lastRequestKey
NoRequestKey == <<>>

\* The values of the state that a render closes over
Closure(names, from, to, syncing, lastKey) ==
    [usernames |-> names, startDate |-> from, endDate |-> to,
     isSyncing |-> syncing, lastRequestKey |-> lastKey]

\* An invocation of fetchEvents that awaits the response for usernames[index]:
\* the values it closed over, allEvents and errors, and the usernames whose
\* request it has sent
Fetch(c) ==
    [usernames |-> c.usernames, startDate |-> c.startDate, endDate |-> c.endDate,
     requestKey |-> requestKey(c.usernames, c.startDate, c.endDate),
     index |-> 1, allEvents |-> <<>>, errors |-> <<>>,
     requested |-> <<c.usernames[1]>>, settled |-> FALSE]

\* fetchEvents runs to its first await in a render that closed over c:
\*   if (usernames.length === 0) return
\*   if (requestKey === lastRequestKey && isSyncing) return
\*   setIsSyncing(true); setLastRequestKey(requestKey); ... await fetch(...)
Skips(c) ==
    \/ Len(c.usernames) = 0
    \/ /\ requestKey(c.usernames, c.startDate, c.endDate) = c.lastRequestKey
       /\ c.isSyncing

fetchEvents(c) ==
    IF Skips(c)
    THEN UNCHANGED <<isSyncing, lastRequestKey, fetches>>
    ELSE /\ isSyncing' = TRUE
         /\ lastRequestKey' = requestKey(c.usernames, c.startDate, c.endDate)
         /\ fetches' = Append(fetches, Fetch(c))

\* The closure of the current render
Current == Closure(usernames, startDay, endDay, isSyncing, lastRequestKey)

\* The fetches whose requests have not all settled
Pending == {i \in DOMAIN fetches : ~fetches[i].settled}

\* localStorage: "github-event-viewer-prefs", "github-event-cache" and
\* "github-event-last-synced", each absent or present
Storage(prefs, cache, synced) == [prefs |-> prefs, cache |-> cache, lastSynced |-> synced]

\* JSON.stringify(value): the text is modelled by the value it encodes
stringify(value) == [json |-> value]

\* An item whose text JSON.parse rejects
Malformed == [malformed |-> TRUE]

\* JSON.parse(item) returns (does not throw)
Parses(item) == item # Malformed

\* JSON.parse(item) of an item that parses
parse(item) == item.json

\* searchParams.get('view') and searchParams.get('usernames') after
\* parseUsernames
SearchParams(view, names) == [view |-> view, usernames |-> names]

\* No toast has been shown
NoToast == <<>>

\* toast({title, description}) with the errors that the description lists
Toast(title, errors) == [title |-> title, errors |-> errors]

\* The variables that fetchEvents and the handlers that call it leave alone
helperVars == <<pc, grouped, relatedEvents, reportData, timeRange, html, text,
                maxLength, truncated, exportVars, dateVars, viewVars,
                selectedEventTypes>>

HelpersIdle ==
    /\ pc = "mounted"
    /\ grouped = NoResult
    /\ relatedEvents = NoResult
    /\ reportData = NoResult
    /\ timeRange = None
    /\ html = NoResult
    /\ text = <<>>
    /\ maxLength = 0
    /\ truncated = NoResult
    /\ ExportIdle
    /\ DateIdle
    /\ ViewIdle
    /\ selectedEventTypes = {}

\* The mounted component with nothing stored, nothing fetched and the first
\* day of the clock
InitClient ==
    /\ HelpersIdle
    /\ events = <<>>
    /\ usernames = <<>>
    /\ startDay = DefaultWindow.startDate
    /\ endDay = DefaultWindow.endDate
    /\ isSyncing = FALSE
    /\ lastRequestKey = NoRequestKey
    /\ lastSynced = Null
    /\ localStorage = Storage(None, None, None)
    /\ toast = NoToast
    /\ fetches = <<>>
    /\ effect = FALSE
    /\ now = 1
    /\ viewMode = "grouped"
    /\ showFilters = TRUE
    /\ searchParams = SearchParams(None, <<>>)
    /\ console = <<>>

\* handleSubmit: setUsernames(newUsernames); fetchEvents().  fetchEvents is the
\* one of the render that the click happened in; the new array makes the
\* effect on [usernames] run after the commit.  The button is disabled while
\* isSyncing.
handleSubmit(newUsernames) ==
    /\ ~effect
    /\ ~isSyncing
    /\ Len(fetches) + 2 <= MaxFetches
    /\ usernames' = newUsernames
    /\ fetchEvents(Current)
    /\ effect' = TRUE
    /\ UNCHANGED <<startDay, endDay, events, lastSynced, localStorage, toast, now,
                   viewMode, showFilters, searchParams, console, helperVars>>

\* useEffect(() => { if (usernames.length > 0) fetchEvents() }, [usernames])
UsernamesEffect ==
    /\ effect
    /\ fetchEvents(Current)
    /\ effect' = FALSE
    /\ UNCHANGED <<usernames, startDay, endDay, events, lastSynced, localStorage,
                   toast, now, viewMode, showFilters, searchParams, console, helperVars>>

\* setDateRange(preset): setStartDate(start); setEndDate(end);
\* if (usernames.length > 0) fetchEvents()
setDateRange(preset) ==
    /\ ~effect
    /\ Len(fetches) + 1 <= MaxFetches
    /\ startDay' = preset.startDate
    /\ endDay' = preset.endDate
    /\ fetchEvents(Current)
    /\ UNCHANGED <<usernames, effect, events, lastSynced, localStorage, toast, now,
                   viewMode, showFilters, searchParams, console, helperVars>>

\* The request for usernames[index] settles with response: the try or the
\* catch of the loop body runs, and the loop sends the next request if there is
\* a next username
received_mut(f, response) ==
    LET username == f.usernames[f.index]
        last == ~response.ok \/ f.index = Len(f.usernames)
    IN [f EXCEPT !.allEvents = IF response.ok THEN @ \o response.data ELSE @,
                 !.errors = IF response.ok THEN @ ELSE Append(@, username),
                 !.index = IF last THEN Len(f.usernames) + 1 ELSE @ + 1,
                 !.requested = IF last THEN @ ELSE Append(@, f.usernames[f.index + 1])]

received(f, response) ==
    LET username == f.usernames[f.index]
        last == f.index = Len(f.usernames)
    IN [f EXCEPT !.allEvents = IF response.ok THEN @ \o response.data ELSE @,
                 !.errors = IF response.ok THEN @ ELSE Append(@, username),
                 !.index = @ + 1,
                 !.requested = IF last THEN @ ELSE Append(@, f.usernames[f.index + 1])]

\* eventDate >= startDate && eventDate <= endDate
InWindow(f, event) == event.created_at >= f.startDate /\ event.created_at <= f.endDate

\* new Date(b.created_at).getTime() - new Date(a.created_at).getTime() < 0
Newer(a, b) == a.created_at > b.created_at

\* allEvents.filter(...) and then filteredEvents.sort(...)
filteredEvents(f) ==
    LET kept == SelectSeq(f.allEvents, LAMBDA event : InWindow(f, event))
    IN StableSort(kept, Newer)

\* if (allEvents.length === 0) { toast(...); return }
allFailed_mut(f) == FALSE

allFailed(f) == Len(f.allEvents) = 0

\* The code of fetchEvents after the loop, finally included
afterLoop_mut(f) ==
    /\ isSyncing' = (IF allFailed(f) THEN isSyncing ELSE FALSE)
    /\ now' = now + 1
    /\ IF allFailed(f)
       THEN /\ toast' = Toast("Fetch failed", f.errors)
            /\ UNCHANGED <<events, localStorage, lastSynced>>
       ELSE /\ IF Len(filteredEvents(f)) > 0
               THEN /\ events' = filteredEvents(f)
                    /\ localStorage' = [localStorage EXCEPT
                                            !.cache = Some(stringify(filteredEvents(f))),
                                            !.lastSynced = Some(now)]
                    /\ lastSynced' = Some(now)
               ELSE UNCHANGED <<events, localStorage, lastSynced>>
            /\ toast' = IF Len(f.errors) > 0
                        THEN Toast("Partial sync completed", f.errors)
                        ELSE Toast("Events synced", <<>>)

afterLoop(f) ==
    /\ isSyncing' = FALSE
    /\ now' = now + 1
    /\ IF allFailed(f)
       THEN /\ toast' = Toast("Fetch failed", f.errors)
            /\ UNCHANGED <<events, localStorage, lastSynced>>
       ELSE /\ IF Len(filteredEvents(f)) > 0
               THEN /\ events' = filteredEvents(f)
                    /\ localStorage' = [localStorage EXCEPT
                                            !.cache = Some(stringify(filteredEvents(f))),
                                            !.lastSynced = Some(now)]
                    /\ lastSynced' = Some(now)
               ELSE UNCHANGED <<events, localStorage, lastSynced>>
            /\ toast' = IF Len(f.errors) > 0
                        THEN Toast("Partial sync completed", f.errors)
                        ELSE Toast("Events synced", <<>>)

\* fetchEvents i resumes with the response to its request
Resume(i, response) ==
    /\ ~effect
    /\ i \in Pending
    /\ LET f == received(fetches[i], response)
       IN IF f.index <= Len(f.usernames)
          THEN /\ fetches' = [fetches EXCEPT ![i] = f]
               /\ UNCHANGED <<isSyncing, now, toast, events, localStorage, lastSynced>>
          ELSE /\ fetches' = [fetches EXCEPT ![i] = [f EXCEPT !.settled = TRUE]]
               /\ afterLoop(f)
    /\ UNCHANGED <<usernames, startDay, endDay, lastRequestKey, effect, viewMode,
                   showFilters, searchParams, console, helperVars>>

\* fetchEvents i resumes with the last response of its loop and
\* localStorage.setItem throws (the quota is exceeded, or storage is disabled)
\* at the write of item: setEvents has run, and setLastSynced too when the
\* second write is the one that throws; the catch of the outer try shows the
\* "Sync failed" toast and the finally block resets isSyncing
setItemThrows(i, response, item) ==
    /\ ~effect
    /\ i \in Pending
    /\ LET f == received(fetches[i], response)
       IN /\ f.index > Len(f.usernames)
          /\ ~allFailed(f)
          /\ Len(filteredEvents(f)) > 0
          /\ fetches' = [fetches EXCEPT ![i] = [f EXCEPT !.settled = TRUE]]
          /\ events' = filteredEvents(f)
          /\ IF item = "github-event-cache"
             THEN UNCHANGED <<localStorage, lastSynced>>
             ELSE /\ localStorage' = [localStorage EXCEPT
                                         !.cache = Some(stringify(filteredEvents(f)))]
                  /\ lastSynced' = Some(now)
          /\ now' = now + 1
          /\ toast' = Toast("Sync failed", <<>>)
          /\ isSyncing' = FALSE
    /\ UNCHANGED <<usernames, startDay, endDay, lastRequestKey, effect, viewMode,
                   showFilters, searchParams, console, helperVars>>

\* const data = await response.json(); allEvents.push(...data)
ResponseOk ==
    \E i \in DOMAIN fetches :
        /\ i \in Pending
        /\ Resume(i, Ok(Feed(fetches[i].usernames[fetches[i].index])))

\* throw new Error(errorMessage), or fetch rejects
ResponseFails == \E i \in DOMAIN fetches : Resume(i, Failure)

HandleSubmit == \E newUsernames \in UsernameLists : handleSubmit(newUsernames)

SetDateRange == \E preset \in Presets : setDateRange(preset)

\* localStorage.setItem(...) throws inside the outer try
SetItemThrows ==
    \E i \in DOMAIN fetches, item \in {"github-event-cache", "github-event-last-synced"} :
        /\ i \in Pending
        /\ \/ setItemThrows(i, Ok(Feed(fetches[i].usernames[fetches[i].index])), item)
           \/ setItemThrows(i, Failure, item)

NextClient ==
    \/ HandleSubmit
    \/ UsernamesEffect
    \/ SetDateRange
    \/ ResponseOk
    \/ ResponseFails
    \/ SetItemThrows

SpecClient == InitClient /\ [][NextClient]_vars


-----------------------------------------------------------------------------
(* C14: a failed request of a batch does not stop the batch *)

\* The usernames whose response fetch f has handled
Handled(f) == SubSeq(f.usernames, 1, f.index - 1)

\* The feeds of the handled usernames whose request did not fail, in order
MergedFeeds(f) ==
    Concat([k \in 1..(f.index - 1) |->
                IF f.usernames[k] \in Range(f.errors) THEN <<>>
                ELSE Feed(f.usernames[k])])

\* C14: in every invocation of fetchEvents a request that failed has added one
\* entry to errors and nothing else, the request of every username up to the
\* awaited one has been sent whatever the earlier requests did (so a settled
\* invocation has requested every username), and allEvents holds the merged
\* records of the requests that succeeded.
C14_FailedRequestIsolated ==
    \A i \in DOMAIN fetches :
        LET f == fetches[i]
        IN /\ f.requested = SubSeq(f.usernames, 1, IF f.settled THEN Len(f.usernames) ELSE f.index)
           /\ f.settled <=> f.index = Len(f.usernames) + 1
           /\ f.errors = SelectSeq(Handled(f), LAMBDA u : u \in Range(f.errors))
           /\ f.allEvents = MergedFeeds(f)

\* An invocation for alice and bob settled after alice's request failed and
\* bob's succeeded
C14_Witness ==
    \E i \in DOMAIN fetches :
        /\ fetches[i].settled
        /\ fetches[i].usernames = <<"alice", "bob">>
        /\ fetches[i].errors = <<"alice">>
        /\ fetches[i].requested = <<"alice", "bob">>
        /\ fetches[i].allEvents = Feed("bob")
        /\ toast # NoToast

-----------------------------------------------------------------------------
(* C15: a batch in which every request failed changes no data *)

\* Invocation i settles in this step and every one of its requests has failed
SettlesAllFailed(i) ==
    /\ ~fetches[i].settled
    /\ fetches'[i].settled
    /\ fetches'[i].errors = fetches'[i].usernames

\* C15: the step in which an invocation of fetchEvents settles with every
\* request failed leaves the in-memory events, the cached events and both
\* copies of the last-sync timestamp as they were, and shows the "Fetch failed"
\* toast that lists the errors.
C15_AllFailedKeepsData ==
    [][\A i \in DOMAIN fetches :
          SettlesAllFailed(i) =>
              /\ events' = events
              /\ localStorage' = localStorage
              /\ lastSynced' = lastSynced
              /\ toast' = Toast("Fetch failed", fetches'[i].errors)]_vars

\* Records were synced earlier, and the invocation that settled last had every
\* request fail: the synced records are still in memory and in the cache
C15_Witness ==
    /\ \E i \in DOMAIN fetches :
          /\ fetches[i].settled
          /\ fetches[i].errors = fetches[i].usernames
          /\ toast = Toast("Fetch failed", fetches[i].errors)
    /\ events # <<>>
    /\ localStorage.cache = Some(stringify(events))
    /\ Has(lastSynced)
    /\ localStorage.lastSynced = lastSynced

-----------------------------------------------------------------------------
(* C16: the duplicate check of fetchEvents *)

\* C16: at most one invocation of fetchEvents has requests outstanding, and
\* no two invocations with requests outstanding have the same request key,
\* whatever the order of form submits, date presets, runs of the effect on
\* [usernames] and responses.
C16_SingleFetchOutstanding ==
    /\ Cardinality(Pending) <= 1
    /\ \A i, j \in Pending : i # j => fetches[i].requestKey # fetches[j].requestKey

-----------------------------------------------------------------------------
(* GitHubEventViewerClient: the mount effect and the effects that save the
   preferences and update the URL (latest revision) *)

\* type ViewMode = "timeline" | "grouped" | "report"
ViewModes == {"timeline", "grouped", "report"}

\* useState<ViewMode>("timeline")
DefaultViewMode == "timeline"

\* useState(false) of showFilters
DefaultShowFilters == FALSE

\* The UserPreferences that the component saves
Prefs(names, from, to, mode, filters, types) ==
    [usernames |-> names, startDate |-> from, endDate |-> to, viewMode |-> mode,
     showFilters |-> filters, selectedEventTypes |-> types]

\* The items that an earlier session, or anything else that writes to
\* localStorage, has left under "github-event-viewer-prefs"
SavedPrefs ==
    {None, Some(Malformed),
     Some(stringify(Prefs(<<>>, 1, 3, "grouped", TRUE, {}))),
     Some(stringify(Prefs(<<"alice">>, 1, 3, "report", FALSE, {"Issues"})))}

\* The items left under "github-event-cache"
SavedCaches == {None, Some(Malformed), Some(stringify(Feed("alice")))}

\* The items left under "github-event-last-synced"
SavedSyncs == {None, Some(1)}

\* The URLs that a session is opened with: the 'view' parameter absent, a view
\* mode or another word, and the 'usernames' parameter (no date parameters)
Urls ==
    {SearchParams(view, names) :
        view \in {None, Some("grouped"), Some("compact")},
        names \in {<<>>, <<"bob">>}}

\* The state of a component that has not mounted yet
Unmounted ==
    /\ pc = "unmounted"
    /\ events = <<>>
    /\ usernames = <<>>
    /\ startDay = DefaultWindow.startDate
    /\ endDay = DefaultWindow.endDate
    /\ isSyncing = FALSE
    /\ lastRequestKey = NoRequestKey
    /\ lastSynced = Null
    /\ toast = NoToast
    /\ fetches = <<>>
    /\ effect = FALSE
    /\ now = 1
    /\ viewMode = DefaultViewMode
    /\ showFilters = DefaultShowFilters
    /\ console = <<>>
    /\ selectedEventTypes = {}

\* The variables that the mount and the view switch leave alone
mountRest == <<grouped, relatedEvents, reportData, timeRange, html, text, maxLength,
               truncated, exportVars, dateVars, viewVars, isSyncing, lastRequestKey,
               toast, fetches, effect, now>>

InitMount ==
    /\ Unmounted
    /\ grouped = NoResult
    /\ relatedEvents = NoResult
    /\ reportData = NoResult
    /\ timeRange = None
    /\ html = NoResult
    /\ text = <<>>
    /\ maxLength = 0
    /\ truncated = NoResult
    /\ ExportIdle
    /\ DateIdle
    /\ ViewIdle
    /\ \E prefs \in SavedPrefs, cache \in SavedCaches, synced \in SavedSyncs :
          localStorage = Storage(prefs, cache, synced)
    /\ searchParams \in Urls

\* try { const prefs = JSON.parse(savedPrefs) ... } of an item that is there
PrefsParse(storage) == Has(storage.prefs) /\ Parses(Val(storage.prefs))

PrefsThrow(storage) == Has(storage.prefs) /\ ~Parses(Val(storage.prefs))

\* "Handle usernames": the URL's usernames, else the saved ones if there are any
mountUsernames(storage, url, current) ==
    IF Len(url.usernames) > 0 THEN url.usernames
    ELSE IF PrefsParse(storage) /\ Len(parse(Val(storage.prefs)).usernames) > 0
         THEN parse(Val(storage.prefs)).usernames
         ELSE current

\* "Get view mode from URL": the only setViewMode of the mount effect
mountViewMode(url, current) ==
    IF Has(url.view) /\ Val(url.view) \in ViewModes THEN Val(url.view) ELSE current

\* "Load other preferences from localStorage"
mountShowFilters(storage, current) ==
    IF PrefsParse(storage) THEN parse(Val(storage.prefs)).showFilters ELSE current

\* setSelectedEventTypes(new Set(prefs.selectedEventTypes || []))
mountSelectedEventTypes(storage, current) ==
    IF PrefsParse(storage) THEN parse(Val(storage.prefs)).selectedEventTypes ELSE current

\* "Load cached events"
mountEvents(storage, current) ==
    IF Has(storage.cache) /\ Parses(Val(storage.cache))
    THEN parse(Val(storage.cache))
    ELSE current

\* const lastSync = localStorage.getItem(...); if (lastSync) setLastSynced(lastSync)
mountLastSynced_mut(storage, current) ==
    IF Has(storage.lastSynced) /\ ~PrefsThrow(storage)
           /\ ~(Has(storage.cache) /\ ~Parses(Val(storage.cache)))
    THEN storage.lastSynced
    ELSE current

mountLastSynced(storage, current) ==
    IF Has(storage.lastSynced) THEN storage.lastSynced ELSE current

\* The console.error calls of the catch blocks, in order: the preferences are
\* parsed for the dates, for the usernames when the URL has none, and for the
\* other preferences; then the cache is parsed
mountErrors(storage, url) ==
    (IF PrefsThrow(storage) THEN <<"Error parsing saved preferences:">> ELSE <<>>)
    \o (IF PrefsThrow(storage) /\ Len(url.usernames) = 0
        THEN <<"Error parsing saved preferences:">> ELSE <<>>)
    \o (IF PrefsThrow(storage) THEN <<"Error parsing saved preferences:">> ELSE <<>>)
    \o (IF Has(storage.cache) /\ ~Parses(Val(storage.cache))
        THEN <<"Error parsing cached events:">> ELSE <<>>)

\* The effect that saves the preferences and the effect that updates the URL,
\* run after the commit of the state (names, mode, filters, types)
SaveEffects(names, mode, filters, types) ==
    /\ localStorage' = [localStorage EXCEPT
                            !.prefs = Some(stringify(Prefs(names, startDay, endDay,
                                                           mode, filters, types)))]
    /\ searchParams' = SearchParams(Some(mode), names)

\* The mount effect (its setStartDate/setEndDate calls end with
\* setStartDate(startDate) and setEndDate(endDate), which keep the window) and
\* the two effects above on the state that it commits
Mount ==
    /\ pc = "unmounted"
    /\ pc' = "mounted"
    /\ usernames' = mountUsernames(localStorage, searchParams, usernames)
    /\ viewMode' = mountViewMode(searchParams, viewMode)
    /\ showFilters' = mountShowFilters(localStorage, showFilters)
    /\ events' = mountEvents(localStorage, events)
    /\ lastSynced' = mountLastSynced(localStorage, lastSynced)
    /\ console' = mountErrors(localStorage, searchParams)
    /\ selectedEventTypes' = mountSelectedEventTypes(localStorage, selectedEventTypes)
    /\ SaveEffects(usernames', viewMode', showFilters', selectedEventTypes')
    /\ UNCHANGED <<startDay, endDay, mountRest>>

\* onViewModeChange={setViewMode} and the two effects on the new state
SetViewMode_mut ==
    /\ pc = "mounted"
    /\ \E mode \in ViewModes :
          /\ viewMode' = mode
          /\ SaveEffects(usernames, mode, showFilters, {})
    /\ selectedEventTypes' = {}
    /\ UNCHANGED <<pc, usernames, showFilters, events, lastSynced,
                   console, startDay, endDay, mountRest>>

SetViewMode ==
    /\ pc = "mounted"
    /\ \E mode \in ViewModes :
          /\ viewMode' = mode
          /\ SaveEffects(usernames, mode, showFilters, selectedEventTypes)
    /\ UNCHANGED <<pc, usernames, showFilters, selectedEventTypes, events, lastSynced,
                   console, startDay, endDay, mountRest>>

\* The page is closed and opened again with some URL: a new component, the
\* same localStorage
Reopen ==
    /\ pc = "mounted"
    /\ pc' = "unmounted"
    /\ events' = <<>>
    /\ usernames' = <<>>
    /\ startDay' = DefaultWindow.startDate
    /\ endDay' = DefaultWindow.endDate
    /\ isSyncing' = FALSE
    /\ lastRequestKey' = NoRequestKey
    /\ lastSynced' = Null
    /\ toast' = NoToast
    /\ fetches' = <<>>
    /\ effect' = FALSE
    /\ now' = 1
    /\ viewMode' = DefaultViewMode
    /\ showFilters' = DefaultShowFilters
    /\ console' = <<>>
    /\ selectedEventTypes' = {}
    /\ searchParams' \in Urls
    /\ UNCHANGED <<localStorage, grouped, relatedEvents, reportData, timeRange, html,
                   text, maxLength, truncated, exportVars, dateVars, viewVars>>

NextMount ==
    \/ Mount
    \/ SetViewMode
    \/ Reopen

SpecMount == InitMount /\ [][NextMount]_vars

-----------------------------------------------------------------------------
(* C17: malformed items in localStorage do not stop the mount *)

\* C17: when the component mounts and the saved preferences or the cached
\* events are not JSON, the error is caught and logged: with malformed
\* preferences the filters panel keeps its default and the usernames are not
\* taken from storage, with a malformed cache the events stay empty, and in
\* both cases the last-sync timestamp is still loaded from storage.
C17_MalformedStorageTolerated ==
    [][(pc = "unmounted" /\ pc' = "mounted") =>
          /\ PrefsThrow(localStorage) =>
                /\ showFilters' = DefaultShowFilters
                /\ usernames' = searchParams.usernames
                /\ "Error parsing saved preferences:" \in Range(console')
          /\ (Has(localStorage.cache) /\ ~Parses(Val(localStorage.cache))) =>
                /\ events' = <<>>
                /\ "Error parsing cached events:" \in Range(console')
          /\ Has(localStorage.lastSynced) => lastSynced' = localStorage.lastSynced]_vars

\* The component has mounted with malformed preferences and a malformed cache:
\* both errors were logged, the defaults are in place and the last-sync
\* timestamp of the storage is loaded
C17_Witness ==
    /\ pc = "mounted"
    /\ "Error parsing saved preferences:" \in Range(console)
    /\ "Error parsing cached events:" \in Range(console)
    /\ localStorage.cache = Some(Malformed)
    /\ events = <<>>
    /\ usernames = <<>>
    /\ showFilters = DefaultShowFilters
    /\ Has(lastSynced)
    /\ lastSynced = localStorage.lastSynced

-----------------------------------------------------------------------------
(* C19: the saved view mode and the next session *)

\* C19: when the component mounts with preferences in localStorage that an
\* earlier session saved and the URL has no 'view' parameter, the view mode
\* after the mount is the saved one.
C19_ViewModeRestored ==
    [][(/\ pc = "unmounted"
        /\ pc' = "mounted"
        /\ PrefsParse(localStorage)
        /\ searchParams.view = None) =>
          viewMode' = parse(Val(localStorage.prefs)).viewMode]_vars

-----------------------------------------------------------------------------
(* groupEventsByCategoryAndNumber *)

\* Longest input of groupEventsByCategoryAndNumber
MaxNumberedEvents == 3

\* `https://github.com/${event.repo.name}` of the one repository of the inputs
RepoUrl == "https://github.com/org/repo"

\* payload.pull_request / payload.issue with the fields that the grouping reads
Numbered(number, title, html_url) == [number |-> number, title |-> title, html_url |-> html_url]

\* A GitHubEvent with the payload fields that the grouping and getEventUrl read
PayloadEvent(type, pull_request, issue, comment, head) ==
    [type |-> type, repo |-> ReportRepo, pull_request |-> pull_request,
     issue |-> issue, comment |-> comment, head |-> head]

\* getEventUrl(event)
getEventUrl(event) ==
    LET orRepo(field) == IF Has(field) /\ Val(field).html_url # "" THEN Val(field).html_url
                         ELSE RepoUrl
    IN CASE event.type = "PushEvent" -> "https://github.com/org/repo/commit/" \o event.head
         [] event.type = "IssuesEvent" -> orRepo(event.issue)
         [] event.type = "PullRequestEvent" -> orRepo(event.pull_request)
         [] event.type = "IssueCommentEvent" -> orRepo(event.comment)
         [] OTHER -> RepoUrl

\* The key "other"
OtherKey == <<"o", "t", "h", "e", "r">>

\* number = event.payload.pull_request?.number?.toString() || "other", and the
\* same for payload.issue; "other" for the types outside the switch
groupNumber(event) ==
    IF event.type \in PullRequestTypes
    THEN IF Has(event.pull_request) THEN NumberToString(Val(event.pull_request).number)
         ELSE OtherKey
    ELSE IF event.type \in IssueTypes
         THEN IF Has(event.issue) THEN NumberToString(Val(event.issue).number)
              ELSE OtherKey
         ELSE OtherKey

\* title = event.payload.pull_request?.title || "", and the same for
\* payload.issue; "" for the types outside the switch
groupTitle(event) ==
    IF event.type \in PullRequestTypes
    THEN IF Has(event.pull_request) THEN Val(event.pull_request).title ELSE ""
    ELSE IF event.type \in IssueTypes
         THEN IF Has(event.issue) THEN Val(event.issue).title ELSE ""
         ELSE ""

\* The body of the forEach: groups is the list of the groups in the order of
\* their creation, each with its category and its key
addToGroup(groups, event) ==
    LET category == getEventCategory(event.type)
        number == groupNumber(event)
        at == {i \in DOMAIN groups : groups[i].category = category /\ groups[i].key = number}
    IN IF at = {}
       THEN Append(groups, [category |-> category, key |-> number,
                            title |-> groupTitle(event), url |-> getEventUrl(event),
                            events |-> <<event>>])
       ELSE [i \in DOMAIN groups |->
                IF i \in at THEN [groups[i] EXCEPT !.events = Append(@, event)]
                ELSE groups[i]]

RECURSIVE numberedReduce(_, _, _)
numberedReduce(evs, i, groups) ==
    IF i > Len(evs) THEN groups
    ELSE numberedReduce(evs, i + 1, addToGroup(groups, evs[i]))

groupEventsByCategoryAndNumber(evs) == numberedReduce(evs, 1, <<>>)

\* Pull requests and issues 1 and 2 with and without a title, events without
\* the payload object, a comment and a push
NumberedEvents ==
    {PayloadEvent("PullRequestEvent", Some(Numbered(1, "Fix", "pr-1")), None, None, ""),
     PayloadEvent("PullRequestEvent", Some(Numbered(1, "", "pr-1b")), None, None, ""),
     PayloadEvent("PullRequestReviewEvent", Some(Numbered(1, "Fix it", "pr-1")), None, None, ""),
     PayloadEvent("PullRequestEvent", Some(Numbered(2, "Add", "pr-2")), None, None, ""),
     PayloadEvent("PullRequestReviewCommentEvent", None, None, None, ""),
     PayloadEvent("IssuesEvent", None, Some(Numbered(1, "Bug", "issue-1")), None, ""),
     PayloadEvent("IssueCommentEvent", None, Some(Numbered(1, "Bug", "issue-1")),
                  Some([html_url |-> "comment-1"]), ""),
     PayloadEvent("PushEvent", None, None, None, "abc")}

InitNumbered ==
    /\ pc = "input"
    /\ events \in SeqsUpTo(NumberedEvents, MaxNumberedEvents)
    /\ Idle

GroupByCategoryAndNumber ==
    /\ pc = "input"
    /\ grouped' = groupEventsByCategoryAndNumber(events)
    /\ pc' = "done"
    /\ UNCHANGED <<events, relatedEvents, reportData, timeRange, html,
                   text, maxLength, truncated>>
    /\ UNCHANGED restVars

NextNumbered == GroupByCategoryAndNumber

SpecNumbered == InitNumbered /\ [][NextNumbered]_vars

-----------------------------------------------------------------------------
(* C18: the title and the URL of a group *)

\* The records of the input that belong to group g, in input order
GroupRecords(g) ==
    SelectSeq(events, LAMBDA e : getEventCategory(e.type) = g.category /\ groupNumber(e) = g.key)

\* The records of group g that supply a non-empty title
Titled(g) == SelectSeq(GroupRecords(g), LAMBDA e : groupTitle(e) # "")

\* C18: every record is in the group of its category and number, with the key
\* "other" when it has no number; a group's events are its records in input
\* order; and the title and the URL of a group are those of the first of its
\* records that supplies a non-empty title.
C18_GroupTitleFromFirstTitled ==
    pc = "done" =>
        /\ \A k \in DOMAIN events :
              \E i \in DOMAIN grouped :
                  /\ grouped[i].category = getEventCategory(events[k].type)
                  /\ grouped[i].key = groupNumber(events[k])
        /\ \A i \in DOMAIN grouped :
              /\ grouped[i].events = GroupRecords(grouped[i])
              /\ Titled(grouped[i]) # <<>> =>
                    /\ grouped[i].title = groupTitle(Titled(grouped[i])[1])
                    /\ grouped[i].url = getEventUrl(Titled(grouped[i])[1])

-----------------------------------------------------------------------------
(* C20: duplicates of a pull request or of an issue in findRelatedEvents *)

\* Records i and j are both PullRequestEvents, or both IssuesEvents, of the
\* same repository and number
SameLinked(i, j) ==
    /\ events[i].type = events[j].type
    /\ events[i].repo = events[j].repo
    /\ \/ events[i].type = "PullRequestEvent" /\ PrNumber(events[i]) # 0
             /\ PrNumber(events[i]) = PrNumber(events[j])
       \/ events[i].type = "IssuesEvent" /\ IssueNumber(events[i]) # 0
             /\ IssueNumber(events[i]) = IssueNumber(events[j])

\* C20: an entry of findRelatedEvents holds at most one pr and one issue, and
\* when the input has several PullRequestEvents (or IssuesEvents) of the same
\* repository and number the one that an entry holds is the last of them in
\* input order.
C20_LaterDuplicateHeld ==
    pc = "done" =>
        \A k \in DOMAIN relatedEvents :
            /\ Len(relatedEvents[k].pr) <= 1
            /\ Len(relatedEvents[k].issue) <= 1
            /\ Has(relatedEvents[k].pr) =>
                  ~\E j \in DOMAIN events :
                       j > Val(relatedEvents[k].pr) /\ SameLinked(Val(relatedEvents[k].pr), j)
            /\ Has(relatedEvents[k].issue) =>
                  ~\E j \in DOMAIN events :
                       j > Val(relatedEvents[k].issue) /\ SameLinked(Val(relatedEvents[k].issue), j)

-----------------------------------------------------------------------------
(* findRelatedEvents on two pull requests that close the same issue *)

\* Longest input with two pull requests that close one issue
MaxCloseEvents == 4

\* Pull requests 1 and 2, both with "Fixes #3" in the body, issue 3, and
\* comments on each of the three
CloseEvents ==
    {Event("PullRequestEvent", LinkRepo, "opened",
           Some(LinkPr(n, Some(<<Mention("Fixes", NumberToString(3))>>))), None, None) :
        n \in {1, 2}}
    \cup {Event("PullRequestReviewCommentEvent", LinkRepo, "created",
                Some(LinkPr(n, None)), None, None) : n \in {1, 2}}
    \cup {Event("IssuesEvent", LinkRepo, "opened", None, Some(LinkIssue(3)), None),
          Event("IssueCommentEvent", LinkRepo, "created", None, Some(LinkIssue(3)), None)}

InitClose ==
    /\ pc = "input"
    /\ events \in SeqsUpTo(CloseEvents, MaxCloseEvents)
    /\ Idle

NextClose == FindRelated

SpecClose == InitClose /\ [][NextClose]_vars

-----------------------------------------------------------------------------
(* C21: two pull requests that close the same issue *)

\* The key of the pull request of event e
PrKey(e) == LinkKey(e.repo, NumberToString(PrNumber(e)))

\* Position i holds the first PullRequestEvent of its number
FirstPr(i) ==
    /\ IsPrEvent(events[i])
    /\ \A k \in 1..(i - 1) : ~(IsPrEvent(events[k]) /\ PrKey(events[k]) = PrKey(events[i]))

\* i and j are the pull requests 1 and 2 (or 2 and 1) in the order in which
\* the second pass processes them, and issue 3 has an entry after the first pass
BothClose(i, j) ==
    /\ i < j
    /\ FirstPr(i)
    /\ FirstPr(j)
    /\ PrKey(events[i]) # PrKey(events[j])
    /\ MapHas(firstPass(EmptyMap, events, 1), LinkKey(LinkRepo, NumberToString(3)))

-----------------------------------------------------------------------------
(* C22: several closing references in one body *)

\* Event i is the only PullRequestEvent of the input
OnlyPr(i) == IsPrEvent(events[i]) /\ \A k \in DOMAIN events : IsPrEvent(events[k]) => k = i

\* C22: for the one pull request of the input, whose body does not refer to
\* its own number, every closing reference of the body is merged whenever the first pass has left an entry
\* for the referenced number and an entry for the pull request, whatever the
\* other references of the body did: the referenced entry ends with the pr and
\* the comments of the pull request's entry.
C22_MatchesIndependent ==
    pc = "done" =>
        \A i \in DOMAIN events :
            OnlyPr(i) =>
                LET first == firstPass(EmptyMap, events, 1)
                    prKey == PrKey(events[i])
                IN \A digits \in ClosingRefs(events[i]) :
                       LET issueKey == LinkKey(events[i].repo, digits)
                       IN (/\ NumberToString(PrNumber(events[i])) \notin ClosingRefs(events[i])
                           /\ MapHas(first, issueKey)
                           /\ MapHas(first, prKey)) =>
                              /\ MapHas(relatedEvents, issueKey)
                              /\ relatedEvents[issueKey].pr = first[prKey].pr
                              /\ relatedEvents[issueKey].comments =
                                     first[issueKey].comments \o first[prKey].comments

-----------------------------------------------------------------------------
(* C25: comments that precede the record they comment on *)

\* The key of a PullRequestEvent or of an IssuesEvent
CollectKey(e) ==
    LinkKey(e.repo, NumberToString(IF IsPrEvent(e) THEN PrNumber(e) ELSE IssueNumber(e)))

\* Event i is a PullRequestEvent or an IssuesEvent with a number, and no
\* PullRequestEvent or IssuesEvent of the same key comes before it
FirstCollected(i) ==
    /\ IsPrEvent(events[i]) \/ IsIssueEvent(events[i])
    /\ \A k \in 1..(i - 1) :
          (IsPrEvent(events[k]) \/ IsIssueEvent(events[k])) =>
              CollectKey(events[k]) # CollectKey(events[i])

\* C25: after the first pass the entry of every such event holds it as pr (a
\* PullRequestEvent) or as issue (an IssuesEvent), wherever the comments for
\* its key are in the input.
C25_CommentOrderIrrelevant ==
    pc = "done" =>
        \A i \in DOMAIN events :
            FirstCollected(i) =>
                LET first == firstPass(EmptyMap, events, 1)
                    key == CollectKey(events[i])
                IN /\ MapHas(first, key)
                   /\ IsPrEvent(events[i]) => first[key].pr = Some(i)
                   /\ IsIssueEvent(events[i]) => first[key].issue = Some(i)

-----------------------------------------------------------------------------
(* C26: the records that the second pass keeps *)

\* C26: every record that is the pr or the issue of an entry after the first
\* pass is the pr or the issue of an entry of the returned map.
C26_SecondPassKeepsRecords ==
    pc = "done" =>
        LET first == firstPass(EmptyMap, events, 1)
        IN \A k \in DOMAIN first :
               /\ Has(first[k].pr) =>
                     \E r \in DOMAIN relatedEvents : relatedEvents[r].pr = first[k].pr
               /\ Has(first[k].issue) =>
                     \E r \in DOMAIN relatedEvents : relatedEvents[r].issue = first[k].issue

-----------------------------------------------------------------------------
(* groupRelatedEventsForTimeline *)

\* Longest input of groupRelatedEventsForTimeline
MaxTimelineEvents == 3

\* A GitHubEvent with its created_at (a day); its id is its position in the
\* input, so the ids of an input are pairwise distinct
Dated(e, created_at) ==
    [type |-> e.type, repo |-> e.repo, action |-> e.action,
     pull_request |-> e.pull_request, issue |-> e.issue, review |-> e.review,
     created_at |-> created_at]

\* `${event.repo.name}#${event.payload.pull_request?.number || event.payload.issue?.number}`:
\* a key of the map wherever one of the numbers is there
timelineRelated(m, event) ==
    LET number == IF PrNumber(event) # 0 THEN PrNumber(event) ELSE IssueNumber(event)
        key == LinkKey(event.repo, NumberToString(number))
    IN IF number # 0 /\ MapHas(m, key) THEN m[key] ELSE Related(None, None, <<>>)

\* One iteration of the forEach: acc holds processedEvents and timelineEvents
timelineStep(m, evs, i, acc) ==
    IF i \in acc.processedEvents THEN acc
    ELSE LET related == timelineRelated(m, evs[i])
         IN IF Has(related.pr) /\ Has(related.issue)
            THEN [processedEvents |-> acc.processedEvents
                                          \cup {Val(related.issue), Val(related.pr)},
                  timelineEvents |-> acc.timelineEvents
                                         \o <<Val(related.issue), Val(related.pr)>>]
            ELSE [processedEvents |-> acc.processedEvents \cup {i},
                  timelineEvents |-> Append(acc.timelineEvents, i)]

RECURSIVE timelineFold(_, _, _, _)
timelineFold(m, evs, i, acc) ==
    IF i > Len(evs) THEN acc
    ELSE timelineFold(m, evs, i + 1, timelineStep(m, evs, i, acc))

\* The result lists the events by their ids; the sort is stable
groupRelatedEventsForTimeline(evs) ==
    LET added == timelineFold(findRelatedEvents(evs), evs, 1,
                              [processedEvents |-> {}, timelineEvents |-> <<>>]).timelineEvents
    IN StableSort(added, LAMBDA a, b : evs[a].created_at > evs[b].created_at)

\* Issue 1, pull request 2 that fixes it, a comment on the issue and a push,
\* each on one of three days
TimelineInputs ==
    {Dated(e, t) :
        e \in {Event("IssuesEvent", LinkRepo, "opened", None, Some(LinkIssue(1)), None),
               Event("PullRequestEvent", LinkRepo, "opened",
                     Some(LinkPr(2, Some(<<Mention("Fixes", NumberToString(1))>>))),
                     None, None),
               Event("IssueCommentEvent", LinkRepo, "created", None, Some(LinkIssue(1)), None),
               Event("PushEvent", LinkRepo, "", None, None, None)},
        t \in 1..3}

InitTimeline ==
    /\ pc = "input"
    /\ events \in SeqsUpTo(TimelineInputs, MaxTimelineEvents)
    /\ Idle

GroupForTimeline ==
    /\ pc = "input"
    /\ relatedEvents' = findRelatedEvents(events)
    /\ timelineEvents' = groupRelatedEventsForTimeline(events)
    /\ pc' = "done"
    /\ UNCHANGED <<events, grouped, reportData, timeRange, html, text, maxLength,
                   truncated, exportVars, dateVars, clientVars, filtered>>

NextTimeline == GroupForTimeline

SpecTimeline == InitTimeline /\ [][NextTimeline]_vars

-----------------------------------------------------------------------------
(* C23: the order of the timeline *)

\* C23: the timeline is in time-descending order, and the issue and the pull
\* request of every entry of findRelatedEvents that holds both are next to
\* each other in it.
C23_LinkedPairAdjacent ==
    pc = "done" =>
        /\ \A a, b \in DOMAIN timelineEvents :
              a < b => events[timelineEvents[a]].created_at
                           >= events[timelineEvents[b]].created_at
        /\ \A k \in DOMAIN relatedEvents :
              (Has(relatedEvents[k].pr) /\ Has(relatedEvents[k].issue)) =>
                  \E a \in 1..(Len(timelineEvents) - 1) :
                      {timelineEvents[a], timelineEvents[a + 1]}
                          = {Val(relatedEvents[k].issue), Val(relatedEvents[k].pr)}

-----------------------------------------------------------------------------
(* C27: the timeline as a permutation of the input *)

\* C27: every record of the input is exactly once in the timeline, and
\* nothing else is in it.
C27_TimelinePermutation ==
    pc = "done" =>
        /\ Len(timelineEvents) = Len(events)
        /\ Range(timelineEvents) = DOMAIN events

-----------------------------------------------------------------------------
(* C24: switching the view mode *)

\* C24: a step of the mounted component that changes the view mode leaves the
\* events, the cached events, the event-type selection, the visibility of the
\* filters, the date window and isSyncing as they were and starts no fetch.
C24_ViewSwitchOnlySwitches ==
    [][(pc = "mounted" /\ pc' = "mounted" /\ viewMode' # viewMode) =>
          /\ events' = events
          /\ localStorage'.cache = localStorage.cache
          /\ localStorage'.lastSynced = localStorage.lastSynced
          /\ selectedEventTypes' = selectedEventTypes
          /\ showFilters' = showFilters
          /\ startDay' = startDay
          /\ endDay' = endDay
          /\ isSyncing' = isSyncing
          /\ fetches' = fetches]_vars

\* The view was switched to the report while cached events and an event-type
\* selection were loaded: both are still there and nothing is syncing
C24_Witness ==
    /\ pc = "mounted"
    /\ viewMode = "report"
    /\ Val(localStorage.prefs) # Malformed
    /\ parse(Val(localStorage.prefs)).viewMode = "report"
    /\ events = Feed("alice")
    /\ localStorage.cache = Some(stringify(events))
    /\ selectedEventTypes = {"Issues"}
    /\ ~isSyncing
    /\ fetches = <<>>

-----------------------------------------------------------------------------
(* C28: the events after a fetch *)

\* The records of evs are within the window of invocation f, newest first
WindowedNewestFirst(f, evs) ==
    /\ \A k \in DOMAIN evs : InWindow(f, evs[k])
    /\ \A a, b \in DOMAIN evs : a < b => evs[a].created_at >= evs[b].created_at

\* C28: after the step in which an invocation of fetchEvents settles with at
\* least one request succeeded, every record of the in-memory events and of
\* the cached events is dated within the window that the invocation used, and
\* both lists are sorted newest first.
C28_EventsWithinWindow ==
    [][\A i \in DOMAIN fetches :
          (/\ ~fetches[i].settled
           /\ fetches'[i].settled
           /\ fetches'[i].errors # fetches'[i].usernames) =>
              /\ WindowedNewestFirst(fetches'[i], events')
              /\ Has(localStorage'.cache) =>
                    WindowedNewestFirst(fetches'[i], parse(Val(localStorage'.cache)))]_vars


-----------------------------------------------------------------------------
(* C29: every invocation of fetchEvents resets isSyncing *)

\* The awaited request of invocation i settles, with a response or with a
\* failure, and the invocation runs to its next await or to its end
Settle(i) ==
    \/ Resume(i, Failure)
    \/ /\ i \in Pending
       /\ Resume(i, Ok(Feed(fetches[i].usernames[fetches[i].index])))
    \/ \E item \in {"github-event-cache", "github-event-last-synced"} :
          /\ i \in Pending
          /\ \/ setItemThrows(i, Ok(Feed(fetches[i].usernames[fetches[i].index])), item)
             \/ setItemThrows(i, Failure, item)

\* The client under the assumptions that every request settles and that
\* React runs an effect that is due
SpecSync ==
    /\ InitClient
    /\ [][NextClient]_vars
    /\ WF_vars(UsernamesEffect)
    /\ \A i \in 1..MaxFetches : WF_vars(Settle(i))

\* Invocation i runs its finally block in this step
Finishes(i) == ~fetches[i].settled /\ fetches'[i].settled

\* C29: every invocation of fetchEvents that has set isSyncing ends (if every
\* request settles), the step in which it ends sets isSyncing to false whether
\* the requests succeeded, some failed, all failed or localStorage.setItem
\* threw, and no request is sent twice: the requests sent are a prefix of the
\* usernames, one each, and an invocation that has ended sends nothing more.
C29_SyncingFlagReset ==
    /\ \A i \in 1..MaxFetches :
          (i \in Pending) ~> (i \in DOMAIN fetches /\ fetches[i].settled)
    /\ [][\A i \in DOMAIN fetches :
             /\ Finishes(i) => isSyncing' = FALSE
             /\ fetches[i].settled => fetches'[i] = fetches[i]
             /\ Len(fetches'[i].requested) <= Len(fetches[i].requested) + 1]_vars
    /\ [](\A i \in DOMAIN fetches :
             fetches[i].requested =
                 SubSeq(fetches[i].usernames, 1, Len(fetches[i].requested)))

\* Two invocations have ended and isSyncing is false: in one every request
\* failed, and the other had a request fail and setItem throw
C29_Witness ==
    /\ ~isSyncing
    /\ Pending = {}
    /\ Len(fetches) = 2
    /\ toast = Toast("Sync failed", <<>>)
    /\ \E i \in DOMAIN fetches : fetches[i].errors = fetches[i].usernames
    /\ \E i \in DOMAIN fetches :
          /\ Len(fetches[i].errors) = 1
          /\ Len(fetches[i].usernames) = 2


-----------------------------------------------------------------------------
(* getFilteredEvents and the event-type filter (latest revision) *)

\* Longest list of events that is filtered
MaxFilterEvents == 2

\* const EVENT_TYPES: Record<EventCategory, string[]> = { ... }
EVENT_TYPES ==
    [category \in EventCategories |->
        CASE category = "Pull Requests" ->
                 {"PullRequestEvent", "PullRequestReviewEvent",
                  "PullRequestReviewCommentEvent"}
          [] category = "Issues" -> {"IssuesEvent", "IssueCommentEvent"}
          [] category = "Commits" -> {"PushEvent"}
          [] category = "Repository" ->
                 {"CreateEvent", "DeleteEvent", "ForkEvent", "WatchEvent",
                  "ReleaseEvent", "PublicEvent", "MemberEvent", "GollumEvent"}
          [] category = "Other" -> {"CommitCommentEvent", "SecurityAdvisoryEvent"}]

\* The fields of a GitHubEvent that getFilteredEvents reads: type, actor.login,
\* repo.name and the labels of payload.pull_request or payload.issue
FilterEvent(type, login, repo, labels) ==
    [type |-> type, login |-> login, repo |-> repo, labels |-> labels]

\* The label filter: only a PullRequestEvent or an IssuesEvent that has labels
\* can pass
hasSelectedLabel(event, selectedLabels) ==
    /\ event.type \in {"PullRequestEvent", "IssuesEvent"}
    /\ Has(event.labels)
    /\ Val(event.labels) \cap selectedLabels # {}

\* Array.from(selectedEventTypes).some(category =>
\*     EVENT_TYPES[category].includes(event.type))
hasSelectedType(event, selectedTypes) ==
    \E category \in selectedTypes : event.type \in EVENT_TYPES[category]

\* getFilteredEvents(events) in a render with the four selections: the ids
\* (positions) of the events that pass every active filter, in order
getFilteredEvents(evs, selectedUsername, selectedRepos, selectedTypes, selectedLabels) ==
    LET keeps(i) ==
            /\ Has(selectedUsername) => evs[i].login = Val(selectedUsername)
            /\ selectedRepos # {} => evs[i].repo \in selectedRepos
            /\ selectedTypes # {} => hasSelectedType(evs[i], selectedTypes)
            /\ selectedLabels # {} => hasSelectedLabel(evs[i], selectedLabels)
    IN SelectSeq([i \in 1..Len(evs) |-> i], keeps)

\* The events that are filtered: one of every type tag, and a labelled issue
\* of another user in another repository
FilterInputs ==
    {FilterEvent(type, "alice", "org/repo", None) : type \in EventTypeTags}
        \cup {FilterEvent("IssuesEvent", "bob", "org/other", Some({"bug"}))}

\* The selections of user, repositories and labels of a render
OtherSelections ==
    {[selectedUsername |-> None, selectedRepos |-> {}, selectedLabels |-> {}],
     [selectedUsername |-> Some("alice"), selectedRepos |-> {}, selectedLabels |-> {}],
     [selectedUsername |-> None, selectedRepos |-> {"org/other"}, selectedLabels |-> {}],
     [selectedUsername |-> None, selectedRepos |-> {}, selectedLabels |-> {"bug"}]}

\* useState<Set<string>>(new Set()) of selectedEventTypes, with events loaded
InitFilter ==
    /\ pc = "mounted"
    /\ events \in SeqsUpTo(FilterInputs, MaxFilterEvents)
    /\ selectedEventTypes = {}
    /\ grouped = NoResult
    /\ relatedEvents = NoResult
    /\ reportData = NoResult
    /\ timeRange = None
    /\ html = NoResult
    /\ text = <<>>
    /\ maxLength = 0
    /\ truncated = NoResult
    /\ ExportIdle
    /\ DateIdle
    /\ ViewIdle
    /\ usernames = NoResult
    /\ startDay = NoResult
    /\ endDay = NoResult
    /\ isSyncing = NoResult
    /\ lastRequestKey = NoResult
    /\ lastSynced = NoResult
    /\ localStorage = NoResult
    /\ toast = NoResult
    /\ fetches = NoResult
    /\ effect = NoResult
    /\ now = NoResult
    /\ viewMode = NoResult
    /\ showFilters = NoResult
    /\ searchParams = NoResult
    /\ console = NoResult

\* toggleEventTypeSelection(category): a click on a button of the filter
\* panel, which has one button for every key of EVENT_TYPES.  The new Set makes
\* the component render again, so the list of the last render is dropped.
toggleEventTypeSelection(category) ==
    /\ selectedEventTypes' = IF category \in selectedEventTypes
                             THEN selectedEventTypes \ {category}
                             ELSE selectedEventTypes \cup {category}
    /\ filtered' = NoResult
    /\ UNCHANGED <<pc, events, grouped, relatedEvents, reportData, timeRange, html,
                   text, maxLength, truncated, exportVars, dateVars, timelineEvents,
                   usernames, startDay, endDay, isSyncing, lastRequestKey,
                   lastSynced, localStorage, toast, fetches, effect, now,
                   viewMode, showFilters, searchParams, console>>

ToggleEventTypeSelection ==
    \E category \in DOMAIN EVENT_TYPES : toggleEventTypeSelection(category)

\* A render of the views: getFilteredEvents(events) with the selections of the
\* render, which are kept next to the result
GetFilteredEvents ==
    /\ \E other \in OtherSelections :
          filtered' =
              [selectedUsername |-> other.selectedUsername,
               selectedRepos |-> other.selectedRepos,
               selectedEventTypes |-> selectedEventTypes,
               selectedLabels |-> other.selectedLabels,
               events |-> getFilteredEvents(events, other.selectedUsername,
                                            other.selectedRepos, selectedEventTypes,
                                            other.selectedLabels)]
    /\ UNCHANGED <<pc, events, grouped, relatedEvents, reportData, timeRange, html,
                   text, maxLength, truncated, exportVars, dateVars, clientVars,
                   timelineEvents>>

NextFilter ==
    \/ ToggleEventTypeSelection
    \/ GetFilteredEvents

SpecFilter == InitFilter /\ [][NextFilter]_vars

-----------------------------------------------------------------------------
(* C30: the event-type filter and the classifier *)

\* The render had no filter active but the event-type filter
OnlyTypeFilter ==
    /\ filtered # NoResult
    /\ filtered.selectedUsername = None
    /\ filtered.selectedRepos = {}
    /\ filtered.selectedLabels = {}

\* C30: in a render whose only active filter is the event-type filter with
\* exactly one category selected, getFilteredEvents keeps every event that
\* getEventCategory puts in that category, events whose type tag no table
\* lists (category "Other") included.
C30_FilterAgreesWithClassifier ==
    OnlyTypeFilter =>
        \A i \in DOMAIN events :
            filtered.selectedEventTypes = {getEventCategory(events[i].type)}
                => i \in Range(filtered.events)

=============================================================================
